---- MODULE Spec2Model ----
(***************************************************************************)
(* Model of the platforma core: the migration service and database facade  *)
(* (database/service.go, database/database.go), the application            *)
(* supervisor with its health registry (application/application.go,        *)
(* application/health.go), the scheduler (scheduler/scheduler.go), the     *)
(* queue processor with its in-memory provider, the migration file parser  *)
(* (database/migration_fs.go) and the command line of Application.Run.     *)
(***************************************************************************)
EXTENDS Integers, Sequences, FiniteSets, TLC

(***************************************************************************)
(* Bounds of the model.                                                    *)
(***************************************************************************)
\* Largest number of migration files the registered repositories carry in total.
MaxBatch == 3

\* Names under which repositories are registered in the database facade.
Repos == {"some_repo", "other_repo"}

\* Migration ids a file can carry (filename stem or ID override).
Ids == {"001_init", "002_next"}

\* The reserved repository and id of the bootstrap migration.
BootRepo == "platforma_migration"
BootId == "init"

RECURSIVE SeqsUpTo(_, _)
SeqsUpTo(S, n) ==
    IF n = 0 THEN {<<>>}
    ELSE LET shorter == SeqsUpTo(S, n - 1)
         IN  shorter \cup {Append(s, x) : s \in {t \in shorter : Len(t) = n - 1}, x \in S}

Reverse(s) == [i \in 1..Len(s) |-> s[Len(s) + 1 - i]]

Range(s) == {s[i] : i \in 1..Len(s)}

(***************************************************************************)
(* State of the database facade, of the store and of one Migrate call.     *)
(***************************************************************************)
VARIABLES
    repositories,       \* Database.repositories: repository name -> "plain" or "migrator"
    migrators,          \* Database.migrators: repository name -> its migration ids in file order
    unparsable,         \* the names in Database.migrators whose file tree ParseMigrations rejects
    tableExists,        \* whether platforma_migrations exists in the store
    rows,               \* the (repository, id) rows of platforma_migrations
    schema,             \* migrations whose Up took effect and was not reverted since
    pc,                 \* position of the Migrate call
    phase,              \* "self" inside migrateSelf, "repos" inside applyMigrations
    migrationLogs,      \* the rows loaded by getMigrationLogs for the running loop
    migrations,         \* the batch handed to the running loop
    idx,                \* index of the loop over migrations
    appliedMigrations,  \* batch positions applied by the running loop, in order
    revertList,         \* positions revertMigrations still has to revert
    saveList,           \* positions saveMigrationLogs still has to insert
    masterErr,          \* positions whose Down (or insert) failed, joined
    result,             \* what Migrate returned
    executed,           \* history of the running loop: every Up and Down executed, in order
    rowsAtApply,        \* history: the rows when the running loop started
    insertFailed        \* history: an insert of the running loop's saveMigrationLogs failed

migVars == <<repositories, migrators, unparsable, tableExists, rows, schema, pc, phase, migrationLogs,
             migrations, idx, appliedMigrations, revertList, saveList,
             masterErr, result, executed, rowsAtApply, insertFailed>>

(***************************************************************************)
(* State of the application supervisor, of its health registry and of one  *)
(* run.                                                                    *)
(***************************************************************************)
VARIABLES
    startupTasks,       \* Application.startupTasks: the configs, in registration order
    services,           \* Application.services: name -> registered runner
    healthcheckers,     \* Application.healthcheckers: name -> registered probe
    health,             \* Health.Services: name -> ServiceHealth
    appStartedAt,       \* Health.StartedAt has been stamped
    appPc,              \* position of the supervisor: "config", "startup", "launch", "wait", "returned"
    taskIdx,            \* index of the loop over startupTasks
    taskActive,         \* the startup task whose Run is executing, or 0
    flow,               \* name -> position of the goroutine launched for the service
    ctxCancelled,       \* the context of run has been cancelled (by the caller or an OS interrupt)
    runResult,          \* what run returned
    hPc,                \* position of a concurrent caller of Application.Health
    hTodo,              \* probes that caller has still to visit
    hCur,               \* the probe whose payload that caller is storing
    crashed,            \* the runtime ended the process (fatal error on unsynchronized map access)
    taskLog,            \* history: the startup tasks in the order their Run was invoked
    outcome,            \* history: name -> how the service's Run ended
    taskErrors,         \* history: the startup tasks whose Run returned an error
    runCause            \* the startup task whose error run's ErrStartupTaskFailed wraps (0: none)

appVars == <<startupTasks, services, healthcheckers, health, appStartedAt, appPc, taskIdx,
             taskActive, flow, ctxCancelled, runResult, hPc, hTodo, hCur, crashed,
             taskLog, outcome, taskErrors, runCause>>

\* What only the end of a startup task writes.
abortVars == <<taskErrors, runCause>>

(***************************************************************************)
(* State of one Scheduler and of the context handed to its Run.            *)
(***************************************************************************)
VARIABLES
    sMode,              \* scheduleModeInterval or scheduleModeCron, fixed by the constructor
    sPc,                \* position of the goroutine that called Scheduler.Run
    sTick,              \* a tick is waiting in ticker.C (a channel of capacity one)
    sInflight,          \* executions of runner.Run that have begun and not returned
    sStarted,           \* history: number of executions begun
    sCtxErr,            \* ctx.Err(): "nil" until the context is done
    sResult,            \* what Scheduler.Run returned
    sLog,               \* history: how the finished executions ended, in the order they ended
    sLateStart,         \* history: an execution began when the context was already done
    sRunOnDone,         \* history: the context was already done when Run was called
    sStopInflight,      \* history: executions in flight when the cron scheduler was stopped
    sStale              \* the tick waiting in ticker.C was sent while runner.Run was executing

schedVars == <<sMode, sPc, sTick, sInflight, sStarted, sCtxErr, sResult, sLog, sLateStart,
               sRunOnDone, sStopInflight, sStale>>

(***************************************************************************)
(* State of one queue Processor, its in-memory provider and its workers.   *)
(***************************************************************************)
VARIABLES
    qPc,                \* position of the goroutine that called Processor.Run
    qOpen,              \* the provider is open
    qChan,              \* the provider's buffered job channel
    qNext,              \* the next job a producer submits
    qEnqueued,          \* history: the jobs whose Enqueue returned nil
    qWorker,            \* worker -> the job its handler call is working on (0: none)
    qHandled,           \* history: job -> number of handler invocations with it
    qCtxDone,           \* the context handed to Processor.Run is done
    qResult,            \* what Processor.Run returned
    qOpenErr,           \* history: the provider's Open failed
    qCloseErr,          \* history: the provider's Close failed
    qEnqResult,         \* history: job -> what Enqueue returned for it
    qPanicked           \* history: the jobs whose handler call panicked

queueVars == <<qPc, qOpen, qChan, qNext, qEnqueued, qWorker, qHandled, qCtxDone, qResult,
               qOpenErr, qCloseErr, qEnqResult, qPanicked>>

\* What the end of Processor.Run and the calls of Enqueue and of the handler
\* leave behind.
qHistVars == <<qResult, qOpenErr, qCloseErr, qEnqResult, qPanicked>>

(***************************************************************************)
(* State of one call of the migration file parser.                         *)
(***************************************************************************)
VARIABLES
    pCall,              \* which function was called: "none", "file", "dir" or "roundtrip"
    pName,              \* parseMigrationFile: the filename
    pLines,             \* parseMigrationFile: the file, split at its line feeds
    pEntries,           \* ParseMigrations: the directory listing, in the order the tree lists it
    pMig,               \* the migration a test helper wrote as the file
    pOut                \* what the call returned

parseVars == <<pCall, pName, pLines, pEntries, pMig, pOut>>

(***************************************************************************)
(* State of one call of Application.Run: the command line, the databases   *)
(* of the application and the loop of Application.migrate.                 *)
(***************************************************************************)
VARIABLES
    databases,          \* Application.databases: the names databases are registered under
    args,               \* os.Args when Run was called
    cmdPc,              \* position of the caller of Run: "config", "run", "migrate", "returned"
    dbTodo,             \* migrate: the databases the map iteration has still to deliver
    dbMigrated,         \* history: the databases whose Migrate was called, in order, with the outcome
    cmdResult,          \* what Run returned
    entered             \* history: which of a.run and a.migrate Run called ("none": neither)

cmdVars == <<databases, args, cmdPc, dbTodo, dbMigrated, cmdResult, entered>>

vars == <<migVars, appVars, schedVars, queueVars, parseVars, cmdVars>>

Mig(r, i) == [repository |-> r, id |-> i]

Key(m) == <<m.repository, m.id>>

\* repository.migrations(): the single bootstrap migration.
selfMigrations == <<Mig(BootRepo, BootId)>>

NoError == [kind |-> "nil", pos |-> 0]

\* fmt.Errorf("failed to apply migration: %w", err) for the migration at pos.
ApplyError(pos) == [kind |-> "apply", pos |-> pos]

RevertError(failed) == [kind |-> "revert", pos |-> failed]

SelectError == [kind |-> "select", pos |-> 0]

\* A map write that keeps the entry a key already has.
PutIfAbsent(m, k, v) == [x \in DOMAIN m \cup {k} |-> IF x \in DOMAIN m THEN m[x] ELSE v]

\* m[k] = v on a Go map.
Put(m, k, v) == [x \in (DOMAIN m) \cup {k} |-> IF x = k THEN v ELSE m[x]]

\* make(map[string]T)
EmptyMap == [x \in {} |-> 0]

\* The objects RegisterRepository can be handed: one without a migration file
\* tree, or a migrator whose tree parses to the given ids, in filename order.
RepositoryObjects ==
    {[isMigrator |-> FALSE, files |-> <<>>, parses |-> TRUE]}
        \cup {[isMigrator |-> TRUE, files |-> f, parses |-> TRUE] : f \in SeqsUpTo(Ids, MaxBatch)}

\* A migrator whose tree ParseMigrations rejects.
UnparsableObject == [isMigrator |-> TRUE, files |-> <<>>, parses |-> FALSE]

(***************************************************************************)
(* Pure helpers of the migration service.                                  *)
(***************************************************************************)
\* A swapped comparison: the log's repository against the migration's id.
IsAppliedSwapped(logs, m) == <<m.id, m.repository>> \in logs

\* A comparison that forgets the repository.
IsAppliedById(logs, m) == \E l \in logs : l[2] = m.id

\* slices.ContainsFunc(migrationLogs, l.Repository == migr.repository && l.MigrationID == migr.ID)
IsApplied(logs, m) == Key(m) \in logs

\* A revert loop that walks the applied migrations front to back.
revertMigrationsForward(applied) == applied

\* revertMigrations: the order in which the applied migrations are reverted
\* (slices.Backward).
revertMigrations(applied) == Reverse(applied)

\* A bookkeeping row that carries the service's own repository name.
LogRowUntagged(m) == <<BootRepo, m.id>>

\* saveMigrationLogs: the row written for an applied migration.
LogRow(m) == <<m.repository, m.id>>

\* A return that prefers the joined revert error when there is one.
ReturnedErrorRevertFirst(upErr, failedReverts) ==
    IF failedReverts # <<>> THEN RevertError(failedReverts) ELSE upErr

\* What the loop returns after an Up failed and the reverts were attempted:
\* the Up error; the joined revert error is only logged.
ReturnedError(upErr, failedReverts) == upErr

\* A Migrate that goes on to the repositories after migrateSelf failed.
AfterFailedLoopGoesOn(ph) == IF ph = "self" THEN "get_logs" ELSE "done"

\* Where a call is after its loop returned an error: migrateSelf's error and
\* applyMigrations' error are both returned by Database.Migrate at once.
AfterFailedLoop(ph) == "done"

\* fmt.Errorf("failed to parse migrations for %s: %w", name, err)
ParseFailed == [kind |-> "parse", pos |-> 0]

\* A Migrate that leaves out the migrators whose tree does not parse.
ParseFailsNever(migs, bad) == FALSE

\* Database.Migrate: ParseMigrations of one of the migrators returns an error.
ParseFails(migs, bad) == DOMAIN migs \cap bad # {}

\* A loop that returns the joined errors of saveMigrationLogs.
SaveResultJoined(failedInserts) ==
    IF failedInserts = <<>> THEN NoError ELSE [kind |-> "save", pos |-> failedInserts]

\* What the loop returns after saveMigrationLogs: nil; the joined insert
\* errors are only logged.
SaveResult(failedInserts) == NoError

\* All orders in which a Go map iteration can deliver the keys of S.
MapOrders(S) ==
    {p \in [1..Cardinality(S) -> S] : \A i, j \in 1..Cardinality(S) : i # j => p[i] # p[j]}

RECURSIVE ConcatRoundRobin(_, _)
\* A batch that takes one migration of each repository in turn.
ConcatRoundRobin(order, migs) ==
    IF \A i \in 1..Len(order) : migs[order[i]] = <<>> THEN <<>>
    ELSE LET left == SelectSeq(order, LAMBDA r : migs[r] # <<>>)
         IN  [i \in 1..Len(left) |-> Mig(left[i], Head(migs[left[i]]))]
                 \o ConcatRoundRobin(order, [r \in DOMAIN migs |->
                                                IF migs[r] = <<>> THEN <<>> ELSE Tail(migs[r])])

RECURSIVE Concat(_, _)
\* The batch: each repository's migrations tagged with its name, concatenated
\* in the order the repositories were iterated.
Concat(order, migs) ==
    IF order = <<>> THEN <<>>
    ELSE [i \in 1..Len(migs[Head(order)]) |-> Mig(Head(order), migs[Head(order)][i])]
             \o Concat(Tail(order), migs)

\* Number of migrations the registered migrators deliver.
BatchSize(migs) == Len(Concat(CHOOSE o \in MapOrders(DOMAIN migs) : TRUE, migs))

Event(op, pos, ok) == [op |-> op, pos |-> pos, ok |-> ok]

(***************************************************************************)
(* Initial state: a fresh Database on an empty store.                      *)
(***************************************************************************)
MigInit ==
    /\ repositories = EmptyMap
    /\ migrators = EmptyMap
    /\ unparsable = {}
    /\ tableExists = FALSE
    /\ rows = {}
    /\ schema = {}
    /\ pc = "idle"
    /\ phase = "none"
    /\ migrationLogs = {}
    /\ migrations = <<>>
    /\ idx = 1
    /\ appliedMigrations = <<>>
    /\ revertList = <<>>
    /\ saveList = <<>>
    /\ masterErr = <<>>
    /\ result = NoError
    /\ executed = <<>>
    /\ rowsAtApply = {}
    /\ insertFailed = FALSE

storeVars == <<tableExists, rows, schema>>
regVars == <<repositories, migrators, unparsable>>
callVars == <<phase, migrationLogs, migrations, idx, appliedMigrations, revertList,
              saveList, masterErr, result, executed, rowsAtApply, insertFailed>>

\* The in-memory state of a call that is not running.
CallReset ==
    /\ phase' = "none"
    /\ migrationLogs' = {}
    /\ migrations' = <<>>
    /\ idx' = 1
    /\ appliedMigrations' = <<>>
    /\ revertList' = <<>>
    /\ saveList' = <<>>
    /\ masterErr' = <<>>
    /\ result' = NoError
    /\ executed' = <<>>
    /\ rowsAtApply' = {}
    /\ insertFailed' = FALSE

(***************************************************************************)
(* Database facade.                                                        *)
(***************************************************************************)
\* Database.RegisterRepository
RegisterRepository(name, repository) ==
    /\ pc = "idle"
    /\ BatchSize(IF repository.isMigrator
                 THEN Put(migrators, name, repository.files)
                 ELSE migrators) <= MaxBatch
    /\ repositories' = Put(repositories, name,
                           IF repository.isMigrator THEN "migrator" ELSE "plain")
    /\ migrators' = IF repository.isMigrator
                    THEN Put(migrators, name, repository.files)
                    ELSE migrators
    /\ unparsable' = IF ~repository.isMigrator THEN unparsable
                     ELSE IF repository.parses THEN unparsable \ {name}
                     ELSE unparsable \cup {name}
    /\ UNCHANGED <<cmdVars, parseVars, schedVars, queueVars, appVars, storeVars, pc, callVars>>

\* Database.Migrate is entered and calls migrateSelf, which loads the logs: any
\* error is taken for "table does not exist yet" and leaves the logs empty.
MigrateBegin ==
    /\ pc = "idle"
    /\ phase' = "self"
    /\ \E ok \in (IF tableExists THEN {TRUE, FALSE} ELSE {FALSE}) :
           migrationLogs' = IF ok THEN rows ELSE {}
    /\ migrations' = selfMigrations
    /\ idx' = 1
    /\ appliedMigrations' = <<>>
    /\ rowsAtApply' = rows
    /\ pc' = "loop"
    /\ UNCHANGED <<cmdVars, parseVars, schedVars, queueVars, appVars, regVars, storeVars, revertList, saveList, masterErr, result,
                   executed, insertFailed>>

\* The loop of migrateSelf and of applyMigrations: an applied migration is skipped.
LoopSkip ==
    /\ pc = "loop"
    /\ idx <= Len(migrations)
    /\ IsApplied(migrationLogs, migrations[idx])
    /\ idx' = idx + 1
    /\ UNCHANGED <<cmdVars, parseVars, schedVars, queueVars, appVars, regVars, storeVars, pc, phase, migrationLogs, migrations,
                   appliedMigrations, revertList, saveList, masterErr, result, executed,
                   rowsAtApply, insertFailed>>

\* applyMigration succeeds: the Up took effect and the migration joins appliedMigrations.
LoopApplyOk ==
    /\ pc = "loop"
    /\ idx <= Len(migrations)
    /\ ~IsApplied(migrationLogs, migrations[idx])
    /\ schema' = schema \cup {Key(migrations[idx])}
    /\ tableExists' = (tableExists \/ Key(migrations[idx]) = <<BootRepo, BootId>>)
    /\ appliedMigrations' = Append(appliedMigrations, idx)
    /\ executed' = Append(executed, Event("up", idx, TRUE))
    /\ idx' = idx + 1
    /\ UNCHANGED <<cmdVars, parseVars, schedVars, queueVars, appVars, regVars, rows, pc, phase, migrationLogs, migrations, revertList,
                   saveList, masterErr, result, rowsAtApply, insertFailed>>

\* applyMigration fails: revertMigrations(appliedMigrations) starts.
LoopApplyFail ==
    /\ pc = "loop"
    /\ idx <= Len(migrations)
    /\ ~IsApplied(migrationLogs, migrations[idx])
    /\ executed' = Append(executed, Event("up", idx, FALSE))
    /\ revertList' = revertMigrations(appliedMigrations)
    /\ masterErr' = <<>>
    /\ pc' = "revert"
    /\ UNCHANGED <<cmdVars, parseVars, schedVars, queueVars, appVars, regVars, storeVars, phase, migrationLogs, migrations, idx,
                   appliedMigrations, saveList, result, rowsAtApply, insertFailed>>

\* revertMigrations: the Down of the next migration is executed; a failure is
\* joined into masterErr and the loop goes on.
RevertStep ==
    /\ pc = "revert"
    /\ revertList # <<>>
    /\ LET pos == Head(revertList)
           k == Key(migrations[pos])
       IN  \E ok \in BOOLEAN :
               /\ executed' = Append(executed, Event("down", pos, ok))
               /\ schema' = schema \ {k}
               /\ tableExists' = (tableExists /\ ~(ok /\ k = <<BootRepo, BootId>>))
               /\ rows' = IF ok /\ k = <<BootRepo, BootId>> THEN {} ELSE rows
               /\ masterErr' = IF ok THEN masterErr ELSE Append(masterErr, pos)
    /\ revertList' = Tail(revertList)
    /\ UNCHANGED <<cmdVars, parseVars, schedVars, queueVars, appVars, regVars, pc, phase, migrationLogs, migrations, idx, appliedMigrations,
                   saveList, result, rowsAtApply, insertFailed>>

\* After the reverts the loop returns the error; Database.Migrate returns it too.
RevertDone ==
    /\ pc = "revert"
    /\ revertList = <<>>
    /\ result' = ReturnedError(ApplyError(idx), masterErr)
    /\ pc' = AfterFailedLoop(phase)
    /\ UNCHANGED <<cmdVars, parseVars, schedVars, queueVars, appVars, regVars, storeVars, phase, migrationLogs, migrations, idx,
                   appliedMigrations, revertList, saveList, masterErr, executed,
                   rowsAtApply, insertFailed>>

\* The loop ended without a failure: saveMigrationLogs(appliedMigrations) starts.
LoopEnd ==
    /\ pc = "loop"
    /\ idx > Len(migrations)
    /\ saveList' = appliedMigrations
    /\ masterErr' = <<>>
    /\ pc' = "save"
    /\ UNCHANGED <<cmdVars, parseVars, schedVars, queueVars, appVars, regVars, storeVars, phase, migrationLogs, migrations, idx,
                   appliedMigrations, revertList, result, executed, rowsAtApply,
                   insertFailed>>

\* saveMigrationLogs: one insert; it can fail (always, when the table is missing),
\* the error is joined and the loop goes on.
SaveStep ==
    /\ pc = "save"
    /\ saveList # <<>>
    /\ \E ok \in (IF tableExists THEN {TRUE, FALSE} ELSE {FALSE}) :
           /\ rows' = IF ok THEN rows \cup {LogRow(migrations[Head(saveList)])} ELSE rows
           /\ masterErr' = IF ok THEN masterErr ELSE Append(masterErr, Head(saveList))
           /\ insertFailed' = (insertFailed \/ ~ok)
    /\ saveList' = Tail(saveList)
    /\ UNCHANGED <<cmdVars, parseVars, schedVars, queueVars, appVars, regVars, tableExists, schema, pc, phase, migrationLogs, migrations, idx,
                   appliedMigrations, revertList, result, executed, rowsAtApply>>

\* The save errors are logged and nil is returned: migrateSelf hands over to
\* Database.Migrate, applyMigrations ends the call.
SaveDone ==
    /\ pc = "save"
    /\ saveList = <<>>
    /\ result' = SaveResult(masterErr)
    /\ pc' = IF phase = "self" THEN "get_logs" ELSE "done"
    /\ UNCHANGED <<cmdVars, parseVars, schedVars, queueVars, appVars, regVars, storeVars, phase, migrationLogs, migrations, idx,
                   appliedMigrations, revertList, saveList, masterErr, executed,
                   rowsAtApply, insertFailed>>

\* Database.Migrate: getMigrationLogs fails and the call returns the error.
GetLogsFail ==
    /\ pc = "get_logs"
    /\ result' = SelectError
    /\ pc' = "done"
    /\ UNCHANGED <<cmdVars, parseVars, schedVars, queueVars, appVars, regVars, storeVars, phase, migrationLogs, migrations, idx,
                   appliedMigrations, revertList, saveList, masterErr, executed,
                   rowsAtApply, insertFailed>>

\* Database.Migrate: the logs are loaded, the migrators are iterated in map
\* order, their migrations tagged and concatenated, and applyMigrations starts.
Collect ==
    /\ pc = "get_logs"
    /\ tableExists
    /\ ~ParseFails(migrators, unparsable)
    /\ migrationLogs' = rows
    /\ \E order \in MapOrders(DOMAIN migrators) :
           migrations' = Concat(order, migrators)
    /\ phase' = "repos"
    /\ idx' = 1
    /\ appliedMigrations' = <<>>
    /\ masterErr' = <<>>
    /\ executed' = <<>>
    /\ rowsAtApply' = rows
    /\ insertFailed' = FALSE
    /\ pc' = "loop"
    /\ UNCHANGED <<cmdVars, parseVars, schedVars, queueVars, appVars, regVars, storeVars, revertList, saveList, result>>

\* Database.Migrate: the logs are loaded, the migrators are iterated and the
\* tree of one of them does not parse: the call returns the error.
CollectParseFail ==
    /\ pc = "get_logs"
    /\ tableExists
    /\ ParseFails(migrators, unparsable)
    /\ result' = ParseFailed
    /\ pc' = "done"
    /\ UNCHANGED <<cmdVars, parseVars, schedVars, queueVars, appVars, regVars, storeVars, phase, migrationLogs, migrations, idx,
                   appliedMigrations, revertList, saveList, masterErr, executed,
                   rowsAtApply, insertFailed>>

\* Database.Migrate has returned to its caller.
MigrateReturn ==
    /\ pc = "done"
    /\ pc' = "idle"
    /\ CallReset
    /\ UNCHANGED <<cmdVars, parseVars, schedVars, queueVars, appVars, regVars, storeVars>>

\* The process dies in the middle of a call: the store keeps what was written.
Crash ==
    /\ pc \notin {"idle", "done"}
    /\ pc' = "idle"
    /\ CallReset
    /\ UNCHANGED <<cmdVars, parseVars, schedVars, queueVars, appVars, regVars, storeVars>>

MigNext ==
    \/ \E name \in Repos, repository \in RepositoryObjects : RegisterRepository(name, repository)
    \/ MigrateBegin
    \/ LoopSkip
    \/ LoopApplyOk
    \/ LoopApplyFail
    \/ RevertStep
    \/ RevertDone
    \/ LoopEnd
    \/ SaveStep
    \/ SaveDone
    \/ GetLogsFail
    \/ Collect
    \/ MigrateReturn
    \/ Crash

\* The repository objects with at most one migration file.
SmallRepositoryObjects == {o \in RepositoryObjects : Len(o.files) <= 1}

\* The calls of Migrate that run to their return, over small trees that
\* parse and trees that do not.
MigParseNext ==
    \/ \E name \in Repos, repository \in SmallRepositoryObjects :
          RegisterRepository(name, repository)
    \/ \E name \in Repos : RegisterRepository(name, UnparsableObject)
    \/ MigrateBegin
    \/ LoopSkip
    \/ LoopApplyOk
    \/ LoopApplyFail
    \/ RevertStep
    \/ RevertDone
    \/ LoopEnd
    \/ SaveStep
    \/ SaveDone
    \/ GetLogsFail
    \/ Collect
    \/ CollectParseFail
    \/ MigrateReturn


(***************************************************************************)
(* Properties of the migration service.                                    *)
(***************************************************************************)
RECURSIVE Positions(_, _, _)
\* The batch positions of the events of h with the given op and outcome set.
Positions(h, op, oks) ==
    IF h = <<>> THEN <<>>
    ELSE (IF Head(h).op = op /\ Head(h).ok \in oks THEN <<Head(h).pos>> ELSE <<>>)
             \o Positions(Tail(h), op, oks)

IsPrefix(s, t) == Len(s) <= Len(t) /\ \A i \in 1..Len(s) : s[i] = t[i]

UpsApplied == Positions(executed, "up", {TRUE})
UpsFailed == Positions(executed, "up", {FALSE})
DownsExecuted == Positions(executed, "down", {TRUE, FALSE})
DownsFailed == Positions(executed, "down", {FALSE})

\* The loop (migrateSelf or applyMigrations) has returned because an Up failed.
FailedCall == pc = "done" /\ UpsFailed # <<>>

\* C1: when an Up fails, the Downs executed are exactly those of the migrations
\* whose Up succeeded earlier in the same loop, each once, in the reverse of
\* the order of those Ups, whether or not a Down fails; the failing migration
\* and the skipped ones are never reverted, and nothing is reverted while no
\* Up has failed.
C1_RevertsInReverseOrder ==
    /\ IsPrefix(DownsExecuted, Reverse(UpsApplied))
    /\ (UpsFailed = <<>> => DownsExecuted = <<>>)
    /\ (FailedCall => DownsExecuted = Reverse(UpsApplied))
    /\ \A i \in 1..Len(DownsExecuted) :
           /\ DownsExecuted[i] \notin Range(UpsFailed)
           /\ Key(migrations[DownsExecuted[i]]) \notin migrationLogs

\* A failed applyMigrations that reverted two migrations although the first
\* Down failed.
C1_Witness ==
    /\ FailedCall
    /\ phase = "repos"
    /\ Len(DownsExecuted) >= 2
    /\ DownsExecuted[1] \in Range(DownsFailed)

\* C2: when applyMigrations fails, the rows of platforma_migrations are the
\* rows that existed when it started, and none of them belongs to the failing
\* migration or to a migration applied earlier in the call.
C2_NoRowsAfterFailure ==
    (FailedCall /\ phase = "repos") =>
        /\ rows = rowsAtApply
        /\ \A i \in 1..Len(executed) :
               executed[i].op = "up" => Key(migrations[executed[i].pos]) \notin rows

\* A failed applyMigrations that had applied a migration, on a store that
\* holds the row of a repository migration.
C2_Witness ==
    /\ FailedCall
    /\ phase = "repos"
    /\ UpsApplied # <<>>
    /\ \E k \in rows : k[1] # BootRepo

\* C3: in every state, also across calls and process deaths, every row of
\* platforma_migrations belongs to a migration whose Up succeeded and whose
\* Down was not executed since.
C3_RowsAreApplied == rows \subseteq schema

\* A revert is under way while the table holds the row of a repository
\* migration written by an earlier call.
C3_Witness ==
    /\ pc = "revert"
    /\ DownsExecuted # <<>>
    /\ \E k \in rows : k[1] # BootRepo

BatchKeys == {Key(migrations[i]) : i \in 1..Len(migrations)}

\* applyMigrations has returned nil.
SucceededCall == pc = "done" /\ phase = "repos" /\ result = NoError

\* C9 as claimed: whenever Migrate returns success, the rows contain every
\* (repository, id) of the batch.
C9_SuccessHasAllRows == SucceededCall => BatchKeys \subseteq rows

\* C9 amended: whenever Migrate returns success and no insert of
\* saveMigrationLogs failed, the rows are the initial rows plus one row for
\* each migration applied in the call, and contain every (repository, id) of
\* the batch.
C9_SuccessHasAllRowsUnlessInsertFailed ==
    (SucceededCall /\ ~insertFailed) =>
        /\ BatchKeys \subseteq rows
        /\ rows = rowsAtApply \cup {Key(migrations[UpsApplied[i]]) : i \in 1..Len(UpsApplied)}

\* A successful call that skipped one migration and applied and recorded another.
C9_Witness ==
    /\ SucceededCall
    /\ ~insertFailed
    /\ UpsApplied # <<>>
    /\ Len(UpsApplied) < Len(migrations)

\* C10: when an Up fails, what the call returns is that Up's error, also when
\* Downs failed.
C10_UpErrorReturned ==
    FailedCall => result = ApplyError(UpsFailed[1])

\* A failed call in which a compensating Down failed too.
C10_Witness ==
    /\ FailedCall
    /\ DownsFailed # <<>>
    /\ result.kind = "apply"

\* The bootstrap key and every (repository, id) the registered migrators deliver.
RegisteredKeys ==
    {<<BootRepo, BootId>>}
        \cup UNION {{<<r, migrators[r][i]>> : i \in 1..Len(migrators[r])} : r \in DOMAIN migrators}

\* A call is running whose loop started with a row for the bootstrap and for
\* every migration of the registered repositories: an earlier call succeeded
\* and persisted its rows.
CallOnPersistedRows == pc # "idle" /\ RegisteredKeys \subseteq rowsAtApply

MaxTasks == 2

\* Names under which services are registered.
ServiceNames == {"service-0", "service-1"}

\* The runners RegisterService can be handed: with or without Healthcheck.
RunnerObjects == {[healthchecker |-> b] : b \in BOOLEAN}

\* StartupTaskConfig: the abort-on-error flag (the name only labels the logs).
TaskConfigs == {[abortOnError |-> b] : b \in BOOLEAN}

\* How a service's Run can end.
RunOutcomes == {"nil", "error", "panic"}

\* &ServiceHealth{Status: ServiceStatusNotStarted}
NewServiceHealth ==
    [status |-> "NOT_STARTED", startedAt |-> FALSE, stoppedAt |-> FALSE,
     error |-> "", data |-> "none"]

\* A StartService that stamps the start time and leaves the status alone.
StartServiceKeepsStatus(h, serviceName) ==
    IF serviceName \in DOMAIN h
    THEN [h EXCEPT ![serviceName].startedAt = TRUE]
    ELSE h

\* Health.StartService
StartService(h, serviceName) ==
    IF serviceName \in DOMAIN h
    THEN [h EXCEPT ![serviceName].status = "STARTED", ![serviceName].startedAt = TRUE]
    ELSE h

\* Health.FailService
FailService(h, serviceName, err) ==
    IF serviceName \in DOMAIN h
    THEN [h EXCEPT ![serviceName].status = "ERROR", ![serviceName].stoppedAt = TRUE,
                   ![serviceName].error = err]
    ELSE h

\* Health.SetServiceData
SetServiceData(h, serviceName, data) ==
    IF serviceName \in DOMAIN h
    THEN [h EXCEPT ![serviceName].data = data]
    ELSE h

\* A loop that stops one task early.
StartupLoopEndsEarly(i, tasks) == i >= Len(tasks)

\* for i, task := range a.startupTasks: the loop is over.
StartupLoopEnded(i, tasks) == i > Len(tasks)

\* A wait that is satisfied by the first flow that ends.
AnyFlowEnded(fl) == \E n \in DOMAIN fl : fl[n] = "done"

\* wg.Wait(): every launched flow has called wg.Done().
AllFlowsEnded(fl) == \A n \in DOMAIN fl : fl[n] = "done"

\* The flows and the Health caller that are inside StartService, FailService
\* or SetServiceData.
InRegistry ==
    {<<"flow", n>> : n \in {x \in DOMAIN flow : flow[x] \in {"in_start", "in_fail"}}}
        \cup (IF hPc = "in_set" THEN {<<"health", hCur>>} ELSE {})

AppInit ==
    /\ startupTasks = <<>>
    /\ services = EmptyMap
    /\ healthcheckers = EmptyMap
    /\ health = EmptyMap
    /\ appStartedAt = FALSE
    /\ appPc = "config"
    /\ taskIdx = 1
    /\ taskActive = 0
    /\ flow = EmptyMap
    /\ ctxCancelled = FALSE
    /\ runResult = "none"
    /\ hPc = "idle"
    /\ hTodo = {}
    /\ hCur = ""
    /\ crashed = FALSE
    /\ taskLog = <<>>
    /\ outcome = EmptyMap
    /\ taskErrors = {}
    /\ runCause = 0

confVars == <<startupTasks, services, healthcheckers>>
probeVars == <<hPc, hTodo, hCur>>

\* Application.OnStart / OnStartFunc
OnStart(config) ==
    /\ appPc = "config"
    /\ hPc = "idle"
    /\ Len(startupTasks) < MaxTasks
    /\ startupTasks' = Append(startupTasks, config)
    /\ UNCHANGED <<cmdVars, parseVars, schedVars, queueVars, migVars, abortVars, services, healthcheckers, health, appStartedAt, appPc, taskIdx,
                   taskActive, flow, ctxCancelled, runResult, probeVars, crashed, taskLog,
                   outcome>>

\* Application.RegisterService
RegisterService(serviceName, service) ==
    /\ appPc = "config"
    /\ hPc = "idle"
    /\ services' = Put(services, serviceName, service)
    /\ health' = Put(health, serviceName, NewServiceHealth)
    /\ healthcheckers' = IF service.healthchecker
                         THEN Put(healthcheckers, serviceName, service)
                         ELSE healthcheckers
    /\ UNCHANGED <<cmdVars, parseVars, schedVars, queueVars, migVars, abortVars, startupTasks, appStartedAt, appPc, taskIdx, taskActive, flow,
                   ctxCancelled, runResult, probeVars, crashed, taskLog, outcome>>

\* Application.Run with the run command: Application.run is entered.
RunBegin ==
    /\ appPc = "config"
    /\ hPc = "idle"
    /\ appPc' = "startup"
    /\ taskIdx' = 1
    /\ UNCHANGED <<cmdVars, parseVars, schedVars, queueVars, migVars, abortVars, confVars, health, appStartedAt, taskActive, flow, ctxCancelled,
                   runResult, probeVars, crashed, taskLog, outcome>>

\* The context handed to Run is cancelled, or the process receives an interrupt.
Cancel ==
    /\ appPc \in {"startup", "launch", "wait"}
    /\ ~crashed
    /\ ~ctxCancelled
    /\ ctxCancelled' = TRUE
    /\ UNCHANGED <<cmdVars, parseVars, schedVars, queueVars, migVars, abortVars, confVars, health, appStartedAt, appPc, taskIdx, taskActive, flow,
                   runResult, probeVars, crashed, taskLog, outcome>>

\* run: task.runner.Run(taskCtx) is invoked for the next startup task.
TaskStart ==
    /\ appPc = "startup"
    /\ ~crashed
    /\ taskActive = 0
    /\ ~StartupLoopEnded(taskIdx, startupTasks)
    /\ taskActive' = taskIdx
    /\ taskLog' = Append(taskLog, taskIdx)
    /\ UNCHANGED <<cmdVars, parseVars, schedVars, queueVars, migVars, abortVars, confVars, health, appStartedAt, appPc, taskIdx, flow,
                   ctxCancelled, runResult, probeVars, crashed, outcome>>

\* A loop that returns on every error of a startup task.
AbortAlways(config) == TRUE

\* if task.config.AbortOnError
AbortOnError(config) == config.abortOnError

\* &ErrStartupTaskFailed{err: err}: the error of the task at position i, wrapped.
StartupTaskFailed(i) == [kind |-> "startup_task_failed", cause |-> i]

\* run: the startup task returns nil, or an error that is only logged (its
\* config does not say abort); the loop goes on.
TaskReturn ==
    /\ appPc = "startup"
    /\ ~crashed
    /\ taskActive # 0
    /\ \E err \in BOOLEAN :
          /\ err => ~AbortOnError(startupTasks[taskActive])
          /\ taskErrors' = IF err THEN taskErrors \cup {taskActive} ELSE taskErrors
    /\ taskActive' = 0
    /\ taskIdx' = taskIdx + 1
    /\ UNCHANGED <<cmdVars, parseVars, schedVars, queueVars, migVars, confVars, health, appStartedAt, appPc, flow,
                   ctxCancelled, runResult, runCause, probeVars, crashed, taskLog, outcome>>

\* run: the startup task returns an error and its config says abort:
\* run returns ErrStartupTaskFailed wrapping that error.
TaskAbort ==
    /\ appPc = "startup"
    /\ ~crashed
    /\ taskActive # 0
    /\ AbortOnError(startupTasks[taskActive])
    /\ taskErrors' = taskErrors \cup {taskActive}
    /\ taskActive' = 0
    /\ runResult' = StartupTaskFailed(taskActive).kind
    /\ runCause' = StartupTaskFailed(taskActive).cause
    /\ appPc' = "returned"
    /\ UNCHANGED <<cmdVars, parseVars, schedVars, queueVars, migVars, confVars, health, appStartedAt, taskIdx,
                   flow, ctxCancelled, probeVars, crashed, taskLog, outcome>>

\* run: the loop over the startup tasks is over; the loop over a.services starts.
StartupEnd ==
    /\ appPc = "startup"
    /\ ~crashed
    /\ taskActive = 0
    /\ StartupLoopEnded(taskIdx, startupTasks)
    /\ appPc' = "launch"
    /\ UNCHANGED <<cmdVars, parseVars, schedVars, queueVars, migVars, abortVars, confVars, health, appStartedAt, taskIdx, taskActive, flow,
                   ctxCancelled, runResult, probeVars, crashed, taskLog, outcome>>

\* run: wg.Add(1) and go func() for the next service of the map iteration.
Launch(serviceName) ==
    /\ appPc = "launch"
    /\ ~crashed
    /\ serviceName \in DOMAIN services
    /\ serviceName \notin DOMAIN flow
    /\ flow' = Put(flow, serviceName, "spawned")
    /\ UNCHANGED <<cmdVars, parseVars, schedVars, queueVars, migVars, abortVars, confVars, health, appStartedAt, appPc, taskIdx, taskActive,
                   ctxCancelled, runResult, probeVars, crashed, taskLog, outcome>>

\* run: every service is launched; a.health.StartedAt is stamped and wg.Wait() starts.
LaunchEnd ==
    /\ appPc = "launch"
    /\ ~crashed
    /\ DOMAIN flow = DOMAIN services
    /\ appStartedAt' = TRUE
    /\ appPc' = "wait"
    /\ UNCHANGED <<cmdVars, parseVars, schedVars, queueVars, migVars, abortVars, confVars, health, taskIdx, taskActive, flow, ctxCancelled,
                   runResult, probeVars, crashed, taskLog, outcome>>

\* The goroutine of a service enters a.health.StartService.
FlowStartEnter(serviceName) ==
    /\ ~crashed
    /\ serviceName \in DOMAIN flow
    /\ flow[serviceName] = "spawned"
    /\ flow' = [flow EXCEPT ![serviceName] = "in_start"]
    /\ UNCHANGED <<cmdVars, parseVars, schedVars, queueVars, migVars, abortVars, confVars, health, appStartedAt, appPc, taskIdx, taskActive,
                   ctxCancelled, runResult, probeVars, crashed, taskLog, outcome>>

\* StartService returns and the goroutine invokes service.Run(serviceCtx).
FlowStartExit(serviceName) ==
    /\ ~crashed
    /\ serviceName \in DOMAIN flow
    /\ flow[serviceName] = "in_start"
    /\ health' = StartService(health, serviceName)
    /\ flow' = [flow EXCEPT ![serviceName] = "running"]
    /\ UNCHANGED <<cmdVars, parseVars, schedVars, queueVars, migVars, abortVars, confVars, appStartedAt, appPc, taskIdx, taskActive,
                   ctxCancelled, runResult, probeVars, crashed, taskLog, outcome>>

\* service.Run returns nil (the goroutine ends), returns an error (the goroutine
\* enters a.health.FailService) or panics (the deferred recover logs the panic
\* and the goroutine ends).
FlowRunReturn(serviceName) ==
    /\ ~crashed
    /\ serviceName \in DOMAIN flow
    /\ flow[serviceName] = "running"
    /\ \E out \in RunOutcomes :
           /\ outcome' = Put(outcome, serviceName, out)
           /\ flow' = [flow EXCEPT ![serviceName] = IF out = "error" THEN "in_fail" ELSE "done"]
    /\ UNCHANGED <<cmdVars, parseVars, schedVars, queueVars, migVars, abortVars, confVars, health, appStartedAt, appPc, taskIdx, taskActive,
                   ctxCancelled, runResult, probeVars, crashed, taskLog>>

\* FailService returns; the error is logged and the goroutine ends (wg.Done()).
FlowFailExit(serviceName) ==
    /\ ~crashed
    /\ serviceName \in DOMAIN flow
    /\ flow[serviceName] = "in_fail"
    /\ health' = FailService(health, serviceName, "error")
    /\ flow' = [flow EXCEPT ![serviceName] = "done"]
    /\ UNCHANGED <<cmdVars, parseVars, schedVars, queueVars, migVars, abortVars, confVars, appStartedAt, appPc, taskIdx, taskActive,
                   ctxCancelled, runResult, probeVars, crashed, taskLog, outcome>>

\* run: wg.Wait() returns and run returns nil.
WaitReturn ==
    /\ appPc = "wait"
    /\ ~crashed
    /\ AllFlowsEnded(flow)
    /\ runResult' = "nil"
    /\ appPc' = "returned"
    /\ UNCHANGED <<cmdVars, parseVars, schedVars, queueVars, migVars, abortVars, confVars, health, appStartedAt, taskIdx, taskActive, flow,
                   ctxCancelled, probeVars, crashed, taskLog, outcome>>

\* Application.Health is called (by the health handler, or by a test).
HealthBegin ==
    /\ ~crashed
    /\ hPc = "idle"
    /\ hTodo' = DOMAIN healthcheckers
    /\ hPc' = "iterate"
    /\ UNCHANGED <<cmdVars, parseVars, schedVars, queueVars, migVars, abortVars, confVars, health, appStartedAt, appPc, taskIdx, taskActive, flow,
                   ctxCancelled, runResult, hCur, crashed, taskLog, outcome>>

\* Health: the map iteration reaches the next probe and calls
\* hc.Healthcheck(ctx) on the caller's goroutine.
HealthProbe(hcName) ==
    /\ ~crashed
    /\ hPc = "iterate"
    /\ hcName \in hTodo
    /\ hCur' = hcName
    /\ hTodo' = hTodo \ {hcName}
    /\ hPc' = "in_probe"
    /\ UNCHANGED <<cmdVars, parseVars, schedVars, queueVars, migVars, abortVars, confVars, health, appStartedAt, appPc, taskIdx, taskActive, flow,
                   ctxCancelled, runResult, crashed, taskLog, outcome>>

\* Health: the probe returns its payload and a.health.SetServiceData is
\* entered. Nothing makes a probe return: it is the service's own code.
ProbeReturn ==
    /\ ~crashed
    /\ hPc = "in_probe"
    /\ hPc' = "in_set"
    /\ UNCHANGED <<cmdVars, parseVars, schedVars, queueVars, migVars, abortVars, confVars, health, appStartedAt,
                   appPc, taskIdx, taskActive, flow, ctxCancelled, runResult, hTodo, hCur,
                   crashed, taskLog, outcome>>

\* SetServiceData returns.
HealthSetExit ==
    /\ ~crashed
    /\ hPc = "in_set"
    /\ health' = SetServiceData(health, hCur, "payload")
    /\ hPc' = "iterate"
    /\ hCur' = ""
    /\ UNCHANGED <<cmdVars, parseVars, schedVars, queueVars, migVars, abortVars, confVars, appStartedAt, appPc, taskIdx, taskActive, flow,
                   ctxCancelled, runResult, hTodo, crashed, taskLog, outcome>>

\* Health returns a.health.
HealthReturn ==
    /\ ~crashed
    /\ hPc = "iterate"
    /\ hTodo = {}
    /\ hPc' = "idle"
    /\ UNCHANGED <<cmdVars, parseVars, schedVars, queueVars, migVars, abortVars, confVars, health, appStartedAt, appPc, taskIdx, taskActive, flow,
                   ctxCancelled, runResult, hTodo, hCur, crashed, taskLog, outcome>>

\* Two goroutines are inside the unsynchronized map Health.Services at once:
\* the Go runtime may detect it and end the process ("concurrent map writes").
RaceFatal ==
    /\ ~crashed
    /\ Cardinality(InRegistry) >= 2
    /\ crashed' = TRUE
    /\ UNCHANGED <<cmdVars, parseVars, schedVars, queueVars, migVars, abortVars, confVars, health, appStartedAt, appPc, taskIdx, taskActive, flow,
                   ctxCancelled, runResult, probeVars, taskLog, outcome>>

AppNext ==
    \/ \E config \in TaskConfigs : OnStart(config)
    \/ \E serviceName \in ServiceNames, service \in RunnerObjects :
           RegisterService(serviceName, service)
    \/ RunBegin
    \/ Cancel
    \/ TaskStart
    \/ TaskReturn
    \/ TaskAbort
    \/ StartupEnd
    \/ \E serviceName \in ServiceNames : Launch(serviceName)
    \/ LaunchEnd
    \/ \E serviceName \in ServiceNames : FlowStartEnter(serviceName)
    \/ \E serviceName \in ServiceNames : FlowStartExit(serviceName)
    \/ \E serviceName \in ServiceNames : FlowRunReturn(serviceName)
    \/ \E serviceName \in ServiceNames : FlowFailExit(serviceName)
    \/ WaitReturn
    \/ HealthBegin
    \/ \E hcName \in ServiceNames : HealthProbe(hcName)
    \/ ProbeReturn
    \/ HealthSetExit
    \/ HealthReturn
    \/ RaceFatal

\* Registration and calls of Application.Health, with no run.
ProbeNext ==
    \/ \E serviceName \in ServiceNames, service \in RunnerObjects :
           RegisterService(serviceName, service)
    \/ HealthBegin
    \/ \E hcName \in ServiceNames : HealthProbe(hcName)
    \/ ProbeReturn
    \/ HealthSetExit
    \/ HealthReturn

(***************************************************************************)
(* Scheduler: periodic execution of a runner until the context is done.    *)
(***************************************************************************)
\* Executions one Run begins in the model.
MaxRuns == 3

\* Executions of the cron callback that can overlap.
MaxInflight == 2

\* What ctx.Err() can be once the context is done.
CtxErrors == {"canceled", "deadline_exceeded"}

NoResult == [kind |-> "none", cause |-> "nil"]

\* fmt.Errorf("scheduler context canceled: %w", ctx.Err())
CanceledError(ctxErr) == [kind |-> "scheduler context canceled", cause |-> ctxErr]

\* fmt.Errorf("failed to create cron scheduler: %w", err) and
\* fmt.Errorf("failed to add cron task: %w", err)
SetupError == [kind |-> "cron setup failed", cause |-> "library"]

\* A loop that gives up when the runner returns an error.
AfterRunStopsOnError(err) == IF err THEN "returned" ELSE "select"

\* runInterval: where the loop goes when runner.Run has returned: the error
\* is logged and the loop selects again.
AfterRun(err) == "select"

\* A wait that is over at once.
StopCtxDoneAtOnce(inflight) == TRUE

\* <-stopCtx.Done(): the context returned by cronScheduler.Stop() is done when
\* the running tasks have completed.
StopCtxDone(inflight) == inflight = 0

SchedInit ==
    /\ sMode = "none"
    /\ sPc = "none"
    /\ sTick = FALSE
    /\ sInflight = 0
    /\ sStarted = 0
    /\ sCtxErr = "nil"
    /\ sResult = NoResult
    /\ sLog = <<>>
    /\ sLateStart = FALSE
    /\ sRunOnDone = FALSE
    /\ sStopInflight = 0
    /\ sStale = FALSE

\* New (interval mode) and NewWithCron (cron mode, the expression is valid).
SchedNew(mode) ==
    /\ sPc = "none"
    /\ sMode' = mode
    /\ sPc' = "new"
    /\ UNCHANGED <<cmdVars, parseVars, migVars, appVars, queueVars, sTick, sInflight, sStarted, sCtxErr, sResult,
                   sLog, sLateStart, sRunOnDone, sStopInflight, sStale>>

\* The context handed to Run is cancelled or its deadline passes, before or
\* after Run is called.
SchedCancel(ctxErr) ==
    /\ sPc \in {"new", "select", "task", "started"}
    /\ sCtxErr = "nil"
    /\ sCtxErr' = ctxErr
    /\ UNCHANGED <<cmdVars, parseVars, migVars, appVars, queueVars, sMode, sPc, sTick, sInflight, sStarted,
                   sResult, sLog, sLateStart, sRunOnDone, sStopInflight, sStale>>

\* Scheduler.Run in interval mode: runInterval creates the ticker and
\* reaches the select.
SchedRunInterval ==
    /\ sPc = "new"
    /\ sMode = "interval"
    /\ sPc' = "select"
    /\ sRunOnDone' = (sCtxErr # "nil")
    /\ UNCHANGED <<cmdVars, parseVars, migVars, appVars, queueVars, sMode, sTick, sInflight, sStarted, sCtxErr,
                   sResult, sLog, sLateStart, sStopInflight, sStale>>

\* time.Ticker: the period has passed; the tick is dropped when ticker.C
\* still holds one.
Tick ==
    /\ sMode = "interval"
    /\ sPc \in {"select", "task"}
    /\ ~sTick
    /\ sTick' = TRUE
    /\ sStale' = (sPc = "task")
    /\ UNCHANGED <<cmdVars, parseVars, migVars, appVars, queueVars, sMode, sPc, sInflight, sStarted, sCtxErr,
                   sResult, sLog, sLateStart, sRunOnDone, sStopInflight>>

\* runInterval: select takes case <-ticker.C and invokes runner.Run. select
\* chooses among the ready cases, so a done context does not disable this.
IntervalFire ==
    /\ sPc = "select"
    /\ sTick
    /\ sStarted < MaxRuns
    /\ sTick' = FALSE
    /\ sStale' = FALSE
    /\ sPc' = "task"
    /\ sInflight' = 1
    /\ sStarted' = sStarted + 1
    /\ sLateStart' = (sLateStart \/ sCtxErr # "nil")
    /\ UNCHANGED <<cmdVars, parseVars, migVars, appVars, queueVars, sMode, sCtxErr, sResult, sLog, sRunOnDone,
                   sStopInflight>>

\* runInterval: runner.Run returns, nil or an error.
IntervalTaskReturn(err) ==
    /\ sPc = "task"
    /\ sInflight' = 0
    /\ sLog' = Append(sLog, IF err THEN "error" ELSE "nil")
    /\ sPc' = AfterRun(err)
    /\ sResult' = IF AfterRun(err) = "returned" THEN CanceledError(sCtxErr) ELSE sResult
    /\ UNCHANGED <<cmdVars, parseVars, migVars, appVars, queueVars, sMode, sTick, sStarted, sCtxErr, sLateStart,
                   sRunOnDone, sStopInflight, sStale>>

\* runInterval: select takes case <-ctx.Done() and Run returns.
IntervalDone ==
    /\ sPc = "select"
    /\ sCtxErr # "nil"
    /\ sPc' = "returned"
    /\ sResult' = CanceledError(sCtxErr)
    /\ UNCHANGED <<cmdVars, parseVars, migVars, appVars, queueVars, sMode, sTick, sInflight, sStarted, sCtxErr,
                   sLog, sLateStart, sRunOnDone, sStopInflight, sStale>>

\* Scheduler.Run in cron mode: runCron creates the cron scheduler, adds the
\* callback, starts it and blocks on <-ctx.Done().
SchedRunCron ==
    /\ sPc = "new"
    /\ sMode = "cron"
    /\ sPc' = "started"
    /\ sRunOnDone' = (sCtxErr # "nil")
    /\ UNCHANGED <<cmdVars, parseVars, migVars, appVars, queueVars, sMode, sTick, sInflight, sStarted, sCtxErr,
                   sResult, sLog, sLateStart, sStopInflight, sStale>>

\* runCron: cron.New or cronScheduler.Add fails; Run returns before Start.
CronSetupFail ==
    /\ sPc = "new"
    /\ sMode = "cron"
    /\ sPc' = "returned"
    /\ sRunOnDone' = (sCtxErr # "nil")
    /\ sResult' = SetupError
    /\ UNCHANGED <<cmdVars, parseVars, migVars, appVars, queueVars, sMode, sTick, sInflight, sStarted, sCtxErr,
                   sLog, sLateStart, sStopInflight, sStale>>

\* The started cron scheduler reaches an instant of the expression and calls
\* the callback on a goroutine of its own: runner.Run is invoked. The cron
\* scheduler does not look at ctx; it dispatches until it is stopped.
CronFire ==
    /\ sMode = "cron"
    /\ sPc = "started"
    /\ sInflight < MaxInflight
    /\ sStarted < MaxRuns
    /\ sInflight' = sInflight + 1
    /\ sStarted' = sStarted + 1
    /\ sLateStart' = (sLateStart \/ sCtxErr # "nil")
    /\ UNCHANGED <<cmdVars, parseVars, migVars, appVars, queueVars, sMode, sPc, sTick, sCtxErr, sResult, sLog,
                   sRunOnDone, sStopInflight, sStale>>

\* The callback's runner.Run returns, nil or an error that is logged.
CronTaskReturn(err) ==
    /\ sMode = "cron"
    /\ sInflight > 0
    /\ sInflight' = sInflight - 1
    /\ sLog' = Append(sLog, IF err THEN "error" ELSE "nil")
    /\ UNCHANGED <<cmdVars, parseVars, migVars, appVars, queueVars, sMode, sPc, sTick, sStarted, sCtxErr,
                   sResult, sLateStart, sRunOnDone, sStopInflight, sStale>>

\* runCron: <-ctx.Done() returns and cronScheduler.Stop() ends the dispatching.
CronStop ==
    /\ sPc = "started"
    /\ sCtxErr # "nil"
    /\ sPc' = "stopping"
    /\ sStopInflight' = sInflight
    /\ UNCHANGED <<cmdVars, parseVars, migVars, appVars, queueVars, sMode, sTick, sInflight, sStarted, sCtxErr,
                   sResult, sLog, sLateStart, sRunOnDone, sStale>>

\* runCron: <-stopCtx.Done() returns and Run returns the wrapped ctx.Err().
CronReturn ==
    /\ sPc = "stopping"
    /\ StopCtxDone(sInflight)
    /\ sPc' = "returned"
    /\ sResult' = CanceledError(sCtxErr)
    /\ UNCHANGED <<cmdVars, parseVars, migVars, appVars, queueVars, sMode, sTick, sInflight, sStarted, sCtxErr,
                   sLog, sLateStart, sRunOnDone, sStopInflight, sStale>>

SchedNext ==
    \/ \E mode \in {"interval", "cron"} : SchedNew(mode)
    \/ \E ctxErr \in CtxErrors : SchedCancel(ctxErr)
    \/ SchedRunInterval
    \/ Tick
    \/ IntervalFire
    \/ \E err \in BOOLEAN : IntervalTaskReturn(err)
    \/ IntervalDone
    \/ SchedRunCron
    \/ CronSetupFail
    \/ CronFire
    \/ \E err \in BOOLEAN : CronTaskReturn(err)
    \/ CronStop
    \/ CronReturn

(***************************************************************************)
(* Queue processor: a pool of workers draining the provider's channel.     *)
(***************************************************************************)
\* Jobs the producers submit in the model.
MaxJobs == 3

\* Capacity of the in-memory provider's channel.
QueueCap == 2

\* The worker goroutines Processor.Run spawns (W = 2).
Workers == {"worker-1", "worker-2"}

Jobs == 1..MaxJobs

\* A send that loses the job.
SendDrops(ch, job) == ch

\* q.jobChan <- job
Send(ch, job) == Append(ch, job)

\* A Run that drops the error of the provider's Close.
RunResultIgnoresClose(closeErr) == "nil"

\* Processor.Run after its context ended: the error of the provider's Close,
\* if any.
RunResult(closeErr) == IF closeErr THEN "close_error" ELSE "nil"

\* A provider that does not look whether it is open.
AcceptsUnopened(open, len) == len < QueueCap

\* In-memory provider: the job is taken when the provider is open and the
\* channel has room.
Accepts(open, len) == open /\ len < QueueCap

\* In-memory provider: the errors EnqueueJob can return for a job it does not
\* take.
EnqueueErrors(open, len, done) ==
    IF ~open THEN {"ClosedQueue"}
    ELSE (IF len = QueueCap THEN {"Timeout"} ELSE {})
             \cup (IF done THEN {"Cancelled"} ELSE {})

\* A worker whose goroutine ends when the handler panics.
WorkerDiesOnPanic(out) == IF out = "panic" THEN -1 ELSE 0

\* Worker: after the handler returned, or panicked and the panic was
\* recovered, the worker is free for the next job.
AfterHandler(out) == 0

QueueInit ==
    /\ qPc = "new"
    /\ qOpen = FALSE
    /\ qChan = <<>>
    /\ qNext = 1
    /\ qEnqueued = {}
    /\ qWorker = [w \in Workers |-> 0]
    /\ qHandled = [j \in Jobs |-> 0]
    /\ qCtxDone = FALSE
    /\ qResult = "none"
    /\ qOpenErr = FALSE
    /\ qCloseErr = FALSE
    /\ qEnqResult = [j \in Jobs |-> "none"]
    /\ qPanicked = {}

\* Processor.Run: the provider is opened and the workers are spawned, or
\* Open fails and Run returns its error.
QueueRun ==
    /\ qPc = "new"
    /\ \E ok \in BOOLEAN :
          /\ qOpen' = ok
          /\ qOpenErr' = ~ok
          /\ qPc' = IF ok THEN "running" ELSE "returned"
          /\ qResult' = IF ok THEN qResult ELSE "open_error"
    /\ UNCHANGED <<cmdVars, parseVars, migVars, appVars, schedVars, qChan, qNext, qEnqueued, qWorker, qHandled,
                   qCtxDone, qCloseErr, qEnqResult, qPanicked>>

\* Processor.Enqueue -> provider.EnqueueJob returns nil: the provider is open
\* and the channel takes the job.
EnqueueOk ==
    /\ qNext <= MaxJobs
    /\ Accepts(qOpen, Len(qChan))
    /\ qChan' = Send(qChan, qNext)
    /\ qEnqueued' = qEnqueued \cup {qNext}
    /\ qEnqResult' = [qEnqResult EXCEPT ![qNext] = "nil"]
    /\ qNext' = qNext + 1
    /\ UNCHANGED <<cmdVars, parseVars, migVars, appVars, schedVars, qPc, qOpen, qWorker, qHandled, qCtxDone,
                   qResult, qOpenErr, qCloseErr, qPanicked>>

\* Processor.Enqueue -> provider.EnqueueJob returns ClosedQueue (the provider
\* is not open), Timeout (the channel stayed full) or Cancelled.
EnqueueFail ==
    /\ qNext <= MaxJobs
    /\ \E err \in EnqueueErrors(qOpen, Len(qChan), qCtxDone) :
           qEnqResult' = [qEnqResult EXCEPT ![qNext] = err]
    /\ qNext' = qNext + 1
    /\ UNCHANGED <<cmdVars, parseVars, migVars, appVars, schedVars, qPc, qOpen, qChan, qEnqueued, qWorker,
                   qHandled, qCtxDone, qResult, qOpenErr, qCloseErr, qPanicked>>

\* A worker receives the next job from the channel and invokes the handler.
WorkerReceive(w) ==
    /\ qPc = "running"
    /\ qWorker[w] = 0
    /\ qChan # <<>>
    /\ qWorker' = [qWorker EXCEPT ![w] = Head(qChan)]
    /\ qChan' = Tail(qChan)
    /\ qHandled' = [qHandled EXCEPT ![Head(qChan)] = @ + 1]
    /\ UNCHANGED <<cmdVars, parseVars, migVars, appVars, schedVars, qPc, qOpen, qNext, qEnqueued, qCtxDone,
                   qHistVars>>

\* The handler returns, or panics and the worker recovers; the worker goes
\* back to the channel.
WorkerDone(w, out) ==
    /\ qWorker[w] \in Jobs
    /\ qWorker' = [qWorker EXCEPT ![w] = AfterHandler(out)]
    /\ qPanicked' = IF out = "panic" THEN qPanicked \cup {qWorker[w]} ELSE qPanicked
    /\ UNCHANGED <<cmdVars, parseVars, migVars, appVars, schedVars, qPc, qOpen, qChan, qNext, qEnqueued,
                   qHandled, qCtxDone, qResult, qOpenErr, qCloseErr, qEnqResult>>

\* The context handed to Processor.Run ends.
QueueCancel ==
    /\ qPc = "running"
    /\ ~qCtxDone
    /\ qCtxDone' = TRUE
    /\ UNCHANGED <<cmdVars, parseVars, migVars, appVars, schedVars, qPc, qOpen, qChan, qNext, qEnqueued,
                   qWorker, qHandled, qHistVars>>

\* Processor.Run: the context is done; the provider is closed and Run returns
\* the error of Close, if any.
QueueReturn ==
    /\ qPc = "running"
    /\ qCtxDone
    /\ qOpen' = FALSE
    /\ qPc' = "returned"
    /\ \E closeErr \in BOOLEAN :
          /\ qCloseErr' = closeErr
          /\ qResult' = RunResult(closeErr)
    /\ UNCHANGED <<cmdVars, parseVars, migVars, appVars, schedVars, qChan, qNext, qEnqueued, qWorker, qHandled,
                   qCtxDone, qOpenErr, qEnqResult, qPanicked>>

QueueNext ==
    \/ QueueRun
    \/ EnqueueOk
    \/ EnqueueFail
    \/ \E w \in Workers : WorkerReceive(w)
    \/ \E w \in Workers, out \in {"ok", "panic"} : WorkerDone(w, out)
    \/ QueueCancel
    \/ QueueReturn

(***************************************************************************)
(* Migration file parser (database/migration_fs.go). A filename is a       *)
(* sequence of characters, a file a sequence of lines, a text a sequence   *)
(* of lines joined by line feeds.                                          *)
(***************************************************************************)
\* Longest file, in lines, handed to parseMigrationFile.
MaxLines == 4

\* Longest directory listing handed to ParseMigrations.
MaxEntries == 3

\* Longest Up or Down text, in lines, of a migration a test helper writes.
MaxTextLines == 2

markerUp == "-- +migrate Up"

markerDown == "-- +migrate Down"

markerID == "-- +migrate ID:"

\* The lines a file is made of: the markers, also indented and with an
\* override id, a statement, also with a carriage return before the line
\* feed, and the empty line.
FileLines ==
    {markerUp, "  -- +migrate Up  ", markerDown, "-- +migrate ID: a", "-- +migrate ID: b",
     markerID, "A;", "A;\r", ""}

\* The white space strings.TrimSpace removes at the left, at the right and at
\* both ends of one line.
TrimLeft(line) ==
    CASE line = "  -- +migrate Up  " -> "-- +migrate Up  "
      [] line = "  A;" -> "A;"
      [] OTHER -> line

TrimRight(line) ==
    CASE line = "  -- +migrate Up  " -> "  -- +migrate Up"
      [] line = "-- +migrate Up  " -> markerUp
      [] line = "-- +migrate ID: " -> markerID
      [] line = "A;\r" -> "A;"
      [] OTHER -> line

\* bufio.Scanner with ScanLines: the line without its line feed and without
\* one trailing carriage return.
ScanText(raw) == IF raw = "A;\r" THEN "A;" ELSE raw

\* strings.TrimSpace of one line.
TrimSpace(line) == TrimRight(TrimLeft(line))

\* strings.HasPrefix(trimmed, markerID)
HasPrefixID(trimmed) == trimmed \in {markerID, "-- +migrate ID: a", "-- +migrate ID: b"}

\* strings.TrimSpace(strings.TrimPrefix(trimmed, markerID)), as characters.
OverrideID(trimmed) ==
    CASE trimmed = "-- +migrate ID: a" -> <<"a">>
      [] trimmed = "-- +migrate ID: b" -> <<"b">>
      [] OTHER -> <<>>

\* strings.TrimSpace of a text: the lines of white space at both ends go, and
\* so does the white space before the first and after the last line left.
RECURSIVE DropBlankHead(_)
DropBlankHead(text) ==
    IF text # <<>> /\ TrimSpace(Head(text)) = "" THEN DropBlankHead(Tail(text)) ELSE text

TrimText(text) ==
    LET core == Reverse(DropBlankHead(Reverse(DropBlankHead(text))))
    IN  [i \in 1..Len(core) |->
            IF Len(core) = 1 THEN TrimSpace(core[i])
            ELSE IF i = 1 THEN TrimLeft(core[i])
            ELSE IF i = Len(core) THEN TrimRight(core[i])
            ELSE core[i]]

\* strings.TrimSuffix(filename, ".sql")
sqlSuffix == <<".", "s", "q", "l">>

HasSuffix(name, suffix) ==
    Len(name) >= Len(suffix)
        /\ SubSeq(name, Len(name) - Len(suffix) + 1, Len(name)) = suffix

TrimSuffix(name, suffix) ==
    IF HasSuffix(name, suffix) THEN SubSeq(name, 1, Len(name) - Len(suffix)) ELSE name

\* filepath.Ext: the suffix of the name that begins at its last dot.
Ext(name) ==
    LET dots == {i \in 1..Len(name) : name[i] = "."}
    IN  IF dots = {} THEN <<>>
        ELSE SubSeq(name, CHOOSE i \in dots : \A j \in dots : j <= i, Len(name))

\* The outcome of parseMigrationFile: a Migration, or an error.
Parsed(id, up, down) == [err |-> "nil", id |-> id, up |-> up, down |-> down]

ParseError(err) == [err |-> err, id |-> <<>>, up |-> <<>>, down |-> <<>>]

\* parseMigrationFile: the error an ID override line meets.
IDMarkerError(idOverridden, anyMarkerSeen) ==
    IF idOverridden THEN "duplicate ID override marker"
    ELSE IF anyMarkerSeen THEN "ID override marker must be the first marker"
    ELSE "nil"

\* The locals of parseMigrationFile before the first line.
ScanInit(filename) ==
    [id |-> TrimSuffix(filename, sqlSuffix), idOverridden |-> FALSE, anyMarkerSeen |-> FALSE,
     up |-> <<>>, down |-> <<>>, section |-> "none", err |-> "nil"]

\* A scan that writes the trimmed line to the section.
WriteLineTrimmed(st, line) ==
    CASE st.section = "up" -> [st EXCEPT !.up = Append(@, TrimSpace(line))]
      [] st.section = "down" -> [st EXCEPT !.down = Append(@, TrimSpace(line))]
      [] OTHER -> st

\* parseMigrationFile: a line that is no marker goes to the current section,
\* if there is one.
WriteLine(st, line) ==
    CASE st.section = "up" -> [st EXCEPT !.up = Append(@, line)]
      [] st.section = "down" -> [st EXCEPT !.down = Append(@, line)]
      [] OTHER -> st

\* parseMigrationFile: the body of the scanner loop for one line.
ScanLine(st, raw) ==
    LET line == ScanText(raw)
        trimmed == TrimSpace(line)
    IN  IF HasPrefixID(trimmed)
        THEN IF IDMarkerError(st.idOverridden, st.anyMarkerSeen) # "nil"
             THEN [st EXCEPT !.err = IDMarkerError(st.idOverridden, st.anyMarkerSeen)]
             ELSE IF OverrideID(trimmed) = <<>>
             THEN [st EXCEPT !.err = "empty ID override"]
             ELSE [st EXCEPT !.id = OverrideID(trimmed), !.idOverridden = TRUE,
                             !.anyMarkerSeen = TRUE]
        ELSE IF trimmed = markerUp
        THEN [st EXCEPT !.section = "up", !.anyMarkerSeen = TRUE]
        ELSE IF trimmed = markerDown
        THEN [st EXCEPT !.section = "down", !.anyMarkerSeen = TRUE]
        ELSE WriteLine(st, line)

\* parseMigrationFile: the scanner loop; an error returns at once.
RECURSIVE Scan(_, _)
Scan(st, lines) ==
    IF lines = <<>> \/ st.err # "nil" THEN st
    ELSE Scan(ScanLine(st, Head(lines)), Tail(lines))

\* A check of the Up section that never fails.
UpMissingNever(up) == FALSE

\* parseMigrationFile: if up == ""
UpMissing(up) == up = <<>>

\* parseMigrationFile
parseMigrationFile(filename, lines) ==
    LET st == Scan(ScanInit(filename), lines)
    IN  IF st.err # "nil" THEN ParseError(st.err)
        ELSE IF UpMissing(TrimText(st.up)) THEN ParseError("missing or empty Up section")
        ELSE Parsed(st.id, TrimText(st.up), TrimText(st.down))

\* The bytes of the characters filenames are made of.
CharCode ==
    [c \in {"-", ".", "0", "1", "2", "t", "x", "s", "q", "l"} |->
        CASE c = "-" -> 45 [] c = "." -> 46 [] c = "0" -> 48 [] c = "1" -> 49
          [] c = "2" -> 50 [] c = "l" -> 108 [] c = "q" -> 113 [] c = "s" -> 115
          [] c = "t" -> 116 [] c = "x" -> 120]

\* a < b for Go strings: bytewise, a proper prefix first.
RECURSIVE StringLess(_, _)
StringLess(a, b) ==
    IF b = <<>> THEN FALSE
    ELSE IF a = <<>> THEN TRUE
    ELSE IF CharCode[Head(a)] # CharCode[Head(b)] THEN CharCode[Head(a)] < CharCode[Head(b)]
    ELSE StringLess(Tail(a), Tail(b))

\* One insertion of insertion sort.
RECURSIVE Insert(_, _)
Insert(name, sorted) ==
    IF sorted = <<>> THEN <<name>>
    ELSE IF StringLess(name, Head(sorted)) THEN <<name>> \o sorted
    ELSE <<Head(sorted)>> \o Insert(name, Tail(sorted))

\* A ParseMigrations that keeps the order of the directory listing.
SortKeepsOrder(filenames) == filenames

\* slices.Sort(filenames)
RECURSIVE Sort(_)
Sort(filenames) ==
    IF filenames = <<>> THEN <<>> ELSE Insert(Head(filenames), Sort(Tail(filenames)))

\* ParseMigrations: the names of the entries that are files with the
\* extension .sql, in listing order.
RECURSIVE SqlFiles(_)
SqlFiles(entries) ==
    IF entries = <<>> THEN <<>>
    ELSE IF Head(entries).isDir \/ Ext(Head(entries).name) # sqlSuffix
    THEN SqlFiles(Tail(entries))
    ELSE <<Head(entries).name>> \o SqlFiles(Tail(entries))

\* fsys.Open(filename) and the scanner over it: the lines of the file.
Open(entries, filename) ==
    LET i == CHOOSE i \in 1..Len(entries) : entries[i].name = filename
    IN  entries[i].lines

\* ParseMigrations: the loop over the sorted filenames; the first file that
\* fails to parse ends it with that error, wrapped, and no migrations.
RECURSIVE ParseAll(_, _, _)
ParseAll(entries, filenames, parsed) ==
    IF filenames = <<>> THEN [err |-> "nil", file |-> <<>>, migrations |-> parsed]
    ELSE LET m == parseMigrationFile(Head(filenames), Open(entries, Head(filenames)))
         IN  IF m.err # "nil"
             THEN [err |-> m.err, file |-> Head(filenames), migrations |-> <<>>]
             ELSE ParseAll(entries, Tail(filenames),
                           Append(parsed, [id |-> m.id, up |-> m.up, down |-> m.down]))

\* ParseMigrations
ParseMigrations(entries) == ParseAll(entries, Sort(SqlFiles(entries)), <<>>)

\* The names of the directory entries: three with the extension .sql, of
\* which "1-.sql" sorts before "1.sql" and "1.sql" before "10.sql", and one
\* with another extension.
SqlNames == {<<"1">> \o sqlSuffix, <<"1", "0">> \o sqlSuffix, <<"1", "-">> \o sqlSuffix}

OtherNames == {<<"2", ".", "t", "x", "t">>}

\* The files of a directory: one that parses, one with an ID override, one
\* with an empty ID override, one without an Up marker and one whose Up
\* section is blank.
FileContents ==
    {<<markerUp, "A;">>, <<"-- +migrate ID: a", markerUp, "A;">>, <<markerID, markerUp, "A;">>,
     <<"A;">>, <<markerUp, "">>}

\* The entries fs.ReadDir lists: files, and a subdirectory named like a
\* migration file.
DirEntries ==
    {[name |-> n, isDir |-> FALSE, lines |-> c] : n \in SqlNames \cup OtherNames,
                                                 c \in FileContents}
        \cup {[name |-> <<"0">> \o sqlSuffix, isDir |-> TRUE, lines |-> <<>>]}

\* The listings of a directory: no two entries of one name.
Listings ==
    {l \in SeqsUpTo(DirEntries, MaxEntries) :
        \A i, j \in 1..Len(l) : l[i].name = l[j].name => i = j}

\* The lines of an Up or Down text a migration is written with.
TextLines == {"A;", "  A;", "A;\r", "", markerDown}

\* The Up and Down texts: a string is at least one line, the empty string one
\* empty line.
Texts == SeqsUpTo(TextLines, MaxTextLines) \ {<<>>}

\* "-- +migrate ID: " + id
IDLine(id) ==
    CASE id = <<"a">> -> "-- +migrate ID: a"
      [] id = <<"b">> -> "-- +migrate ID: b"
      [] OTHER -> "-- +migrate ID: "

\* migrationFS: the content of the file of one migration, after an ID
\* directive line if one is written.
Serialize(m, directive) ==
    (IF directive THEN <<IDLine(m.id)>> ELSE <<>>)
        \o <<markerUp>> \o m.up
        \o (IF m.down # <<"">> THEN <<"", markerDown>> \o m.down ELSE <<>>)

\* migrationFS: the name of the file; a file with an ID directive has a name
\* of its own.
FileName(m, directive) == IF directive THEN <<"1">> \o sqlSuffix ELSE m.id \o sqlSuffix

ParseInit ==
    /\ pCall = "none"
    /\ pName = <<>>
    /\ pLines = <<>>
    /\ pEntries = <<>>
    /\ pMig = [id |-> <<>>, up |-> <<"">>, down |-> <<"">>, directive |-> FALSE]
    /\ pOut = ParseError("nil")

\* A call of parseMigrationFile.
ParseFileCall(filename, lines) ==
    /\ pCall = "none"
    /\ pCall' = "file"
    /\ pName' = filename
    /\ pLines' = lines
    /\ pOut' = parseMigrationFile(filename, lines)
    /\ UNCHANGED <<cmdVars, migVars, appVars, schedVars, queueVars, pEntries, pMig>>

\* A call of ParseMigrations.
ParseMigrationsCall(entries) ==
    /\ pCall = "none"
    /\ pCall' = "dir"
    /\ pEntries' = entries
    /\ pOut' = ParseMigrations(entries)
    /\ UNCHANGED <<cmdVars, migVars, appVars, schedVars, queueVars, pName, pLines, pMig>>

\* migrationFS of one migration and the parse of its file.
RoundTripCall(m, directive) ==
    /\ pCall = "none"
    /\ m.up # <<"">>
    /\ pCall' = "roundtrip"
    /\ pMig' = [id |-> m.id, up |-> m.up, down |-> m.down, directive |-> directive]
    /\ pName' = FileName(m, directive)
    /\ pLines' = Serialize(m, directive)
    /\ pOut' = parseMigrationFile(FileName(m, directive), Serialize(m, directive))
    /\ UNCHANGED <<cmdVars, migVars, appVars, schedVars, queueVars, pEntries>>

\* The inputs of the calls.
ParseInputs == SeqsUpTo(FileLines, MaxLines)

\* One call, of one function, from the state before any call.
ParseNext ==
    /\ pCall = "none"
    /\ \/ \E filename \in {<<"1">> \o sqlSuffix, <<"1", "0">> \o sqlSuffix},
             lines \in ParseInputs : ParseFileCall(filename, lines)
       \/ \E entries \in Listings : ParseMigrationsCall(entries)
       \/ \E id \in {<<"1">>, <<"1", "0">>}, up \in Texts, down \in Texts :
             RoundTripCall([id |-> id, up |-> up, down |-> down], FALSE)
       \/ \E id \in {<<"a">>, <<"b">>, <<>>}, up \in Texts, down \in Texts :
             RoundTripCall([id |-> id, up |-> up, down |-> down], TRUE)

(***************************************************************************)
(* Application.Run: the dispatch on the command line, and migrate mode     *)
(* (application/application.go).                                           *)
(***************************************************************************)
\* Names databases are registered under.
DatabaseNames == {"main", "audit", "cache"}

\* The command lines: the program name alone, or followed by a command and
\* possibly one more argument.
Commands == {"run", "migrate", "-h", "--help", "unknown", "Run", ""}

CommandLines ==
    {<<"program">>} \cup {<<"program", c>> : c \in Commands}
        \cup {<<"program", c, "--help">> : c \in Commands}

ErrUnknownCommand == [kind |-> "UnknownCommand", cause |-> ""]

\* &ErrDatabaseMigrationFailed{err: err}, err the error of the database's Migrate.
ErrDatabaseMigrationFailed(dbName) == [kind |-> "DatabaseMigrationFailed", cause |-> dbName]

\* &ErrStartupTaskFailed{err: err}
ErrStartupTaskFailed == [kind |-> "StartupTaskFailed", cause |-> ""]

Nil == [kind |-> "nil", cause |-> ""]

\* A dispatch that starts the application on every command it does not know.
DispatchRunsByDefault(argv) ==
    IF Len(argv) < 2 THEN "usage"
    ELSE CASE argv[2] = "migrate" -> "migrate"
           [] argv[2] \in {"--help", "-h"} -> "usage"
           [] OTHER -> "run"

\* Run: the branch the command line selects.
Dispatch(argv) ==
    IF Len(argv) < 2 THEN "usage"
    ELSE CASE argv[2] = "run" -> "run"
           [] argv[2] = "migrate" -> "migrate"
           [] argv[2] \in {"--help", "-h"} -> "usage"
           [] OTHER -> "unknown"

\* A migrate that goes on with the next database after a failure.
AfterMigrateGoesOn(ok, rest) == IF rest = {} THEN "returned" ELSE "migrate"

\* migrate: where the loop over the databases is after one Migrate returned.
AfterMigrate(ok, rest) == IF ~ok \/ rest = {} THEN "returned" ELSE "migrate"

CmdInit ==
    /\ databases = {}
    /\ args = <<>>
    /\ cmdPc = "config"
    /\ dbTodo = {}
    /\ dbMigrated = <<>>
    /\ cmdResult = Nil
    /\ entered = "none"

\* Application.RegisterDatabase
RegisterDatabase(dbName) ==
    /\ cmdPc = "config"
    /\ databases' = databases \cup {dbName}
    /\ UNCHANGED <<migVars, appVars, schedVars, queueVars, parseVars, args, cmdPc, dbTodo,
                   dbMigrated, cmdResult, entered>>

\* Application.Run: the switch on os.Args; usage and unknown commands return
\* at once, run and migrate are entered. migrate returns at once when no
\* database is registered.
Run(argv) ==
    /\ cmdPc = "config"
    /\ args' = argv
    /\ entered' = IF Dispatch(argv) \in {"run", "migrate"} THEN Dispatch(argv) ELSE "none"
    /\ cmdPc' = CASE Dispatch(argv) = "run" -> "run"
                  [] Dispatch(argv) = "migrate" /\ databases # {} -> "migrate"
                  [] OTHER -> "returned"
    /\ cmdResult' = IF Dispatch(argv) = "unknown" THEN ErrUnknownCommand ELSE Nil
    /\ dbTodo' = IF Dispatch(argv) = "migrate" THEN databases ELSE {}
    /\ UNCHANGED <<migVars, appVars, schedVars, queueVars, parseVars, databases, dbMigrated>>

\* migrate: the map iteration delivers a database and its Migrate returns,
\* nil or an error; the error ends the loop, and so does the last database.
MigrateDatabase(dbName, ok) ==
    /\ cmdPc = "migrate"
    /\ dbName \in dbTodo
    /\ dbMigrated' = Append(dbMigrated, [database |-> dbName, ok |-> ok])
    /\ dbTodo' = dbTodo \ {dbName}
    /\ cmdPc' = AfterMigrate(ok, dbTodo \ {dbName})
    /\ cmdResult' = IF ~ok THEN ErrDatabaseMigrationFailed(dbName) ELSE cmdResult
    /\ UNCHANGED <<migVars, appVars, schedVars, queueVars, parseVars, databases, args, entered>>

\* run returns: nil, or the error of a startup task that aborts.
RunReturns(err) ==
    /\ cmdPc = "run"
    /\ cmdPc' = "returned"
    /\ cmdResult' = IF err THEN ErrStartupTaskFailed ELSE Nil
    /\ UNCHANGED <<migVars, appVars, schedVars, queueVars, parseVars, databases, args, dbTodo,
                   dbMigrated, entered>>

CmdNext ==
    \/ \E dbName \in DatabaseNames : RegisterDatabase(dbName)
    \/ \E argv \in CommandLines : Run(argv)
    \/ \E dbName \in DatabaseNames, ok \in BOOLEAN : MigrateDatabase(dbName, ok)
    \/ \E err \in BOOLEAN : RunReturns(err)

(***************************************************************************)
(* Specifications.                                                         *)
(***************************************************************************)
Init == MigInit /\ AppInit /\ SchedInit /\ QueueInit /\ ParseInit /\ CmdInit

Next ==
    MigNext \/ MigParseNext \/ AppNext \/ SchedNext \/ QueueNext \/ ParseNext \/ CmdNext

Spec == Init /\ [][Next]_vars

\* The database facade and the migration service alone.
SpecMigrate == Init /\ [][MigNext]_vars

\* The calls of Migrate over small trees that parse and trees that do not.
SpecMigrateParse == Init /\ [][MigParseNext]_vars

\* Application.Run with its command line, and migrate mode.
SpecCmd == Init /\ [][CmdNext]_vars

\* The migration file parser alone.
SpecParser == Init /\ [][ParseNext]_vars

\* The application supervisor alone.
SpecApp == Init /\ [][AppNext]_vars

\* Registration and Application.Health alone.
SpecProbe == Init /\ [][ProbeNext]_vars

\* Application.Health under fair scheduling of its caller's goroutine: the
\* loop goes on whenever it can; whether a probe returns is up to the probe.
FairSpecProbe ==
    /\ SpecProbe
    /\ WF_vars(\E hcName \in ServiceNames : HealthProbe(hcName))
    /\ WF_vars(HealthSetExit)
    /\ WF_vars(HealthReturn)

\* One scheduler alone.
SpecScheduler == Init /\ [][SchedNext]_vars

\* The scheduler under the scheduling the Go runtime and the clock guarantee:
\* the ticker and the cron scheduler keep firing, a goroutine that can take a
\* step eventually takes it, and the runner returns.
FairSpecScheduler ==
    /\ SpecScheduler
    /\ WF_vars(SchedRunInterval \/ SchedRunCron)
    /\ WF_vars(Tick)
    /\ WF_vars(IntervalFire)
    /\ WF_vars(\E err \in BOOLEAN : IntervalTaskReturn(err))
    /\ WF_vars(IntervalDone)
    /\ WF_vars(CronFire)
    /\ WF_vars(\E err \in BOOLEAN : CronTaskReturn(err))
    /\ WF_vars(CronStop)
    /\ WF_vars(CronReturn)

\* One queue processor alone.
SpecQueue == Init /\ [][QueueNext]_vars

\* The queue processor with workers that take a job when one is waiting and
\* a handler that returns.
FairSpecQueue ==
    /\ SpecQueue
    /\ \A w \in Workers :
           /\ WF_vars(WorkerReceive(w))
           /\ WF_vars(\E out \in {"ok", "panic"} : WorkerDone(w, out))

\* The application supervisor under the scheduling the Go runtime guarantees:
\* the supervisor and every goroutine that can take a step eventually takes
\* it, a startup task eventually returns, and a service's Run returns once
\* its context is cancelled.
FairSpecApp ==
    /\ SpecApp
    /\ WF_vars(TaskStart)
    /\ WF_vars(TaskReturn \/ TaskAbort)
    /\ WF_vars(StartupEnd)
    /\ WF_vars(LaunchEnd)
    /\ WF_vars(WaitReturn)
    /\ \A n \in ServiceNames :
           /\ WF_vars(Launch(n))
           /\ WF_vars(FlowStartEnter(n))
           /\ WF_vars(FlowStartExit(n))
           /\ WF_vars(ctxCancelled /\ FlowRunReturn(n))
           /\ WF_vars(FlowFailExit(n))

(***************************************************************************)
(* Properties of the application supervisor.                               *)
(***************************************************************************)
\* C4: the health status of a service whose flow has ended is ERROR if and
\* only if its Run returned an error or panicked.
C4_ErrorIffFailedOrPanicked ==
    \A n \in DOMAIN flow :
        flow[n] = "done" =>
            (health[n].status = "ERROR" <=> outcome[n] \in {"error", "panic"})

\* C5: at most one of the flows and Health callers is inside StartService,
\* FailService or SetServiceData at any time.
C5_RegistrySerialized == Cardinality(InRegistry) <= 1

\* C6: the startup tasks are invoked one at a time in registration order, and
\* a service's Run is invoked only when every startup task has returned.
C6_StartupTasksBeforeServices ==
    /\ taskLog = [i \in 1..Len(taskLog) |-> i]
    /\ (taskActive # 0 => taskActive = Len(taskLog))
    /\ \A n \in DOMAIN flow :
           flow[n] \in {"running", "in_fail", "done"} =>
               taskActive = 0 /\ Len(taskLog) = Len(startupTasks)

\* A service's Run has been invoked after two startup tasks ran.
C6_Witness ==
    /\ Len(startupTasks) = MaxTasks
    /\ \E n \in DOMAIN flow : flow[n] = "running"

\* C7: when run returns after the service flows were launched, every launched
\* flow has ended and run returns nil, whatever the services returned.
C7_RunReturnsNilAfterAllFlows ==
    (appPc = "returned" /\ runResult # "startup_task_failed") =>
        /\ runResult = "nil"
        /\ DOMAIN flow = DOMAIN services
        /\ \A n \in DOMAIN flow : flow[n] = "done"

\* run has returned nil although one service returned an error and another panicked.
C7_Witness ==
    /\ appPc = "returned"
    /\ runResult = "nil"
    /\ \E n, m \in DOMAIN outcome : outcome[n] = "error" /\ outcome[m] = "panic"

\* C8: once the context is cancelled, and given that every service's Run
\* returns once its context is cancelled, run eventually returns.
C8_CancelLeadsToReturn == ctxCancelled ~> (appPc = "returned")

\* C12: a startup task error aborts run exactly when the task's config says
\* abort-on-error: run then returns ErrStartupTaskFailed wrapping that error,
\* no later startup task is invoked and no service flow is launched; an error
\* of a task without the flag does not keep run from running the remaining
\* tasks and every service and returning nil.
AbortingErrors == {i \in taskErrors : startupTasks[i].abortOnError}

C12_AbortOnErrorDecides ==
    /\ \A i \in AbortingErrors :
           /\ appPc = "returned"
           /\ runResult = "startup_task_failed"
           /\ runCause = i
           /\ Len(taskLog) = i
           /\ flow = EmptyMap
           /\ \A n \in DOMAIN health : health[n].status = "NOT_STARTED"
    /\ (AbortingErrors = {} /\ appPc = "returned") =>
           /\ runResult = "nil"
           /\ Len(taskLog) = Len(startupTasks)
           /\ DOMAIN outcome = DOMAIN services

\* The first startup task failed without the flag, the second failed with it,
\* and run returned with a service registered.
C12_Witness ==
    /\ appPc = "returned"
    /\ taskErrors = {1, 2}
    /\ runCause = 2
    /\ services # EmptyMap

\* C13 as claimed: after run has returned, every registered service has status
\* STARTED or ERROR.
C13_ReturnedMeansStartedOrError ==
    appPc = "returned" =>
        \A n \in DOMAIN services : health[n].status \in {"STARTED", "ERROR"}

\* C13 amended: after run has returned nil (no startup task aborted it), every
\* registered service has status STARTED or ERROR.
C13_ReturnedNilMeansStartedOrError ==
    (appPc = "returned" /\ runResult = "nil") =>
        \A n \in DOMAIN services : health[n].status \in {"STARTED", "ERROR"}

\* run returned nil with one service STARTED and another in ERROR.
C13_Witness ==
    /\ appPc = "returned"
    /\ runResult = "nil"
    /\ \E n, m \in DOMAIN services :
           health[n].status = "STARTED" /\ health[m].status = "ERROR"

(***************************************************************************)
(* The health registry driven through its exported methods, in any order:  *)
(* what repeated runs and callers holding the *Health can do to it.        *)
(***************************************************************************)
\* The error a failing service hands to FailService (err.Error()).
ServiceError == "service failed"

\* Health.StartService called for a name.
CallStartService(n) ==
    /\ appPc = "config"
    /\ health' = StartService(health, n)
    /\ UNCHANGED <<cmdVars, parseVars, schedVars, queueVars, migVars, abortVars, confVars, appStartedAt, appPc, taskIdx, taskActive,
                   flow, ctxCancelled, runResult, probeVars, crashed, taskLog, outcome>>

\* Health.FailService called for a name.
CallFailService(n) ==
    /\ appPc = "config"
    /\ health' = FailService(health, n, ServiceError)
    /\ UNCHANGED <<cmdVars, parseVars, schedVars, queueVars, migVars, abortVars, confVars, appStartedAt, appPc, taskIdx, taskActive,
                   flow, ctxCancelled, runResult, probeVars, crashed, taskLog, outcome>>

\* Health.SetServiceData called for a name.
CallSetServiceData(n) ==
    /\ appPc = "config"
    /\ health' = SetServiceData(health, n, "payload")
    /\ UNCHANGED <<cmdVars, parseVars, schedVars, queueVars, migVars, abortVars, confVars, appStartedAt, appPc, taskIdx, taskActive,
                   flow, ctxCancelled, runResult, probeVars, crashed, taskLog, outcome>>

HealthNext ==
    \/ \E n \in ServiceNames, s \in RunnerObjects : RegisterService(n, s)
    \/ \E n \in ServiceNames : CallStartService(n)
    \/ \E n \in ServiceNames : CallFailService(n)
    \/ \E n \in ServiceNames : CallSetServiceData(n)

SpecHealth == Init /\ [][HealthNext]_vars

\* C14: in every ServiceHealth, stoppedAt and error are set if and only if
\* the status is ERROR.
C14_StoppedAndErrorIffError ==
    \A n \in DOMAIN health :
        /\ health[n].stoppedAt <=> health[n].status = "ERROR"
        /\ health[n].error # "" <=> health[n].status = "ERROR"

\* C15: RegisterService writes the given runner and a fresh NOT_STARTED
\* ServiceHealth under the name, whether or not the name was registered, and
\* leaves the entries of every other name as they were.
C15_RegisterServiceReplaces ==
    [][\A n \in ServiceNames, s \in RunnerObjects :
           RegisterService(n, s) =>
               /\ DOMAIN services' = DOMAIN services \cup {n}
               /\ DOMAIN health' = DOMAIN health \cup {n}
               /\ services'[n] = s
               /\ health'[n] = [status |-> "NOT_STARTED", startedAt |-> FALSE,
                                stoppedAt |-> FALSE, error |-> "", data |-> "none"]
               /\ \A m \in DOMAIN services \ {n} : services'[m] = services[m]
               /\ \A m \in DOMAIN health \ {n} : health'[m] = health[m]]_vars

\* A name registered with a health-checking runner has been registered again
\* with a plain one: its ServiceHealth is fresh while the other service's
\* ServiceHealth still carries its error and payload.
C15_Witness ==
    \E n \in DOMAIN healthcheckers, m \in DOMAIN health :
        /\ m # n
        /\ ~services[n].healthchecker
        /\ health[n] = NewServiceHealth
        /\ health[m].status = "ERROR"
        /\ health[m].data = "payload"

(***************************************************************************)
(* Properties of the scheduler.                                            *)
(***************************************************************************)
\* C16: once the context handed to Scheduler.Run is done, no execution of
\* the task begins.
C16_NoExecutionBeginsAfterCancel == ~sLateStart

\* C17: Scheduler.Run returns only when no execution it started is in
\* flight; it returns only after the context is done (or when the cron
\* scheduler could not be set up), with an error that wraps ctx.Err().
C17_RunReturnsAfterInflight ==
    sPc = "returned" =>
        /\ sInflight = 0
        /\ Len(sLog) = sStarted
        /\ sResult # NoResult
        /\ sResult # SetupError =>
               /\ sCtxErr # "nil"
               /\ sResult = CanceledError(sCtxErr)

\* Run has returned after it stopped the cron scheduler with as many
\* executions in flight as can overlap.
C17_Witness ==
    /\ sPc = "returned"
    /\ sStopInflight = MaxInflight
    /\ sResult = CanceledError("canceled")

\* C18: a Run that was called with a context that was already done never
\* invokes the task.
C18_CancelledRunNeverInvokes == sRunOnDone => sStarted = 0

\* The last finished execution returned an error.
LastFailed == sLog # <<>> /\ sLog[Len(sLog)] = "error"

\* C19: an execution that returns an error does not end Run (Run returns only
\* when the context is done or the set-up failed), and as long as the context
\* is not done a further execution begins after it.
C19_ErrorDoesNotStopScheduler ==
    /\ [](sPc = "returned" => (sCtxErr # "nil" \/ sResult = SetupError))
    /\ \A k \in 1..(MaxRuns - 1) :
           (sStarted = k /\ LastFailed /\ sCtxErr = "nil")
               ~> (sStarted > k \/ sCtxErr # "nil")

\* In interval mode the task was invoked again, and returned, after an
\* execution that returned an error, the context not being done.
C19_Witness ==
    /\ sMode = "interval"
    /\ sCtxErr = "nil"
    /\ Len(sLog) >= 2
    /\ sLog[1] = "error"

(***************************************************************************)
(* Properties of the queue processor.                                      *)
(***************************************************************************)
\* Number of places of the channel that hold the job.
InChan(job) == Cardinality({i \in 1..Len(qChan) : qChan[i] = job})

\* C20: every job whose Enqueue succeeded is either waiting in the channel
\* or was handed to the handler, exactly once in all, and no other job is;
\* while the workers run (the context is not done) every such job is
\* eventually handled, so that K enqueued jobs make K handler invocations.
C20_EachJobHandledOnce ==
    /\ [](\A j \in Jobs :
            InChan(j) + qHandled[j] = (IF j \in qEnqueued THEN 1 ELSE 0))
    /\ \A j \in Jobs :
           (j \in qEnqueued) ~> (qHandled[j] = 1 \/ qCtxDone)

\* Every submitted job was enqueued and handled, with the workers running.
C20_Witness ==
    /\ qPc = "running"
    /\ ~qCtxDone
    /\ qEnqueued = Jobs
    /\ \A j \in Jobs : qHandled[j] = 1

\* C21: a panic of the handler does not end Processor.Run (Run returns only
\* when Open failed or its context ended), and when handler calls have
\* panicked every enqueued job is still handled as long as the context is
\* not done.
C21_PanicDoesNotKillPool ==
    /\ [](qPc = "returned" => (qOpenErr \/ qCtxDone))
    /\ \A j \in Jobs :
           (j \in qEnqueued /\ qPanicked # {})
               ~> (qHandled[j] = 1 \/ qCtxDone)

\* As many handler calls panicked as there are workers, and a later job was
\* handled without a panic, the processor still running.
C21_Witness ==
    /\ qPc = "running"
    /\ ~qCtxDone
    /\ Cardinality(qPanicked) = Cardinality(Workers)
    /\ \E j \in Jobs :
           /\ \A k \in qPanicked : k < j
           /\ qHandled[j] = 1
           /\ qWorker = [w \in Workers |-> 0]

\* C22: Processor.Run returns an error without any job handled when Open
\* failed; otherwise it returns only once its context has ended, and then an
\* error exactly when Close failed.
C22_RunResult ==
    qPc = "returned" =>
        IF qOpenErr
        THEN qResult = "open_error" /\ \A j \in Jobs : qHandled[j] = 0
        ELSE /\ qCtxDone
             /\ qResult = "close_error" <=> qCloseErr
             /\ qResult = "nil" <=> ~qCloseErr

\* Run returned the error of Close after jobs were handled.
C22_Witness ==
    /\ qPc = "returned"
    /\ qResult = "close_error"
    /\ \E j \in Jobs : qHandled[j] = 1

\* C23: EnqueueJob returns ClosedQueue and leaves the channel alone whenever
\* the provider is not open, before Open and after Close; a job it accepts
\* while open is put on the job channel.
C23_ClosedQueueUnlessOpen ==
    [][\A j \in Jobs :
           (qNext = j /\ qNext' = j + 1) =>
               /\ ~qOpen => (qEnqResult'[j] = "ClosedQueue" /\ qChan' = qChan)
               /\ qEnqResult'[j] = "nil" => (qOpen /\ qChan' = Append(qChan, j))
               /\ qEnqResult'[j] # "nil" => qChan' = qChan]_vars

\* A job was refused before Open, one was accepted and handled while open,
\* and one was refused after Close.
C23_Witness ==
    /\ qPc = "returned"
    /\ qEnqResult[1] = "ClosedQueue"
    /\ qEnqResult[2] = "nil"
    /\ qEnqResult[3] = "ClosedQueue"
    /\ qHandled[2] = 1

(***************************************************************************)
(* Properties of Application.Health.                                       *)
(***************************************************************************)
\* C24: a call of Health eventually returns to its caller, whatever the
\* probes do.
C24_HealthReturns == (hPc # "idle") ~> (hPc = "idle")

\* C25: Health stores a probe's payload in the data of the ServiceHealth of
\* the same name: when the loop has visited every probe each registered probe
\* has its payload stored, the data of a service that exposes no probe is
\* empty, and status, startedAt, stoppedAt and error are as they were.
C25_HealthStoresProbePayloads ==
    /\ \A n \in DOMAIN health :
           /\ ~services[n].healthchecker => health[n].data = "none"
           /\ health[n].status = "NOT_STARTED"
           /\ ~health[n].startedAt
           /\ ~health[n].stoppedAt
           /\ health[n].error = ""
    /\ (hPc = "iterate" /\ hTodo = {}) =>
           \A n \in DOMAIN healthcheckers : health[n].data = "payload"

(***************************************************************************)
(* Properties of the migration file parser.                                *)
(***************************************************************************)
\* The lines of a file that are ID override lines, by position.
IDLines(lines) == {i \in 1..Len(lines) : HasPrefixID(TrimSpace(ScanText(lines[i])))}

\* The first line of a file that is the Up marker, 0 if there is none.
FirstUp(lines) ==
    LET ups == {i \in 1..Len(lines) : TrimSpace(ScanText(lines[i])) = markerUp}
    IN  IF ups = {} THEN 0 ELSE CHOOSE i \in ups : \A j \in ups : i <= j

\* The file without the lines at the positions drop.
RECURSIVE Without(_, _, _)
Without(lines, drop, i) ==
    IF i > Len(lines) THEN <<>>
    ELSE (IF i \in drop THEN <<>> ELSE <<lines[i]>>) \o Without(lines, drop, i + 1)

\* C26: a file with more than one ID override line, which parses when only
\* the first of them is left, parses, and its id is the first override.
C26_FirstOverrideWins ==
    (/\ pCall = "file"
     /\ Cardinality(IDLines(pLines)) > 1)
        => LET first == CHOOSE i \in IDLines(pLines) : \A j \in IDLines(pLines) : i <= j
               single == Without(pLines, IDLines(pLines) \ {first}, 1)
           IN  parseMigrationFile(pName, single).err = "nil"
                   => /\ pOut.err = "nil"
                      /\ pOut.id = OverrideID(TrimSpace(ScanText(pLines[first])))

\* C27: a file whose ID override lines all come after the Up marker, and
\* which parses without them, parses, and its id is the filename without
\* the extension.
C27_IDAfterUpIgnored ==
    (/\ pCall = "file"
     /\ IDLines(pLines) # {}
     /\ FirstUp(pLines) # 0
     /\ \A i \in IDLines(pLines) : FirstUp(pLines) < i
     /\ parseMigrationFile(pName, Without(pLines, IDLines(pLines), 1)).err = "nil")
        => /\ pOut.err = "nil"
           /\ pOut.id = TrimSuffix(pName, sqlSuffix)

\* The entries of a listing that are files whose name ends in .sql.
SqlEntries(entries) ==
    {e \in Range(entries) : ~e.isDir /\ HasSuffix(e.name, sqlSuffix)}

\* The migration a file yields on its own.
MigrationOf(e) ==
    LET m == parseMigrationFile(e.name, e.lines)
    IN  [id |-> m.id, up |-> m.up, down |-> m.down]

\* C28: when every .sql file of the directory parses, ParseMigrations
\* returns no error and one migration per .sql file, the migration of a file
\* at the rank its filename has among the .sql filenames in bytewise order,
\* whatever the order of the listing and the ID overrides; subdirectories and
\* other files contribute nothing; a directory without .sql files yields the
\* empty list and no error.
C28_OnePerSqlFileInFilenameOrder ==
    pCall = "dir" =>
        LET files == SqlEntries(pEntries)
        IN  /\ (\A e \in files : parseMigrationFile(e.name, e.lines).err = "nil")
                   => pOut.err = "nil"
            /\ pOut.err = "nil" =>
                   /\ Len(pOut.migrations) = Cardinality(files)
                   /\ \A e \in files :
                          pOut.migrations[1 + Cardinality({f \in files :
                                                             StringLess(f.name, e.name)})]
                              = MigrationOf(e)
            /\ files = {} => pOut = [err |-> "nil", file |-> <<>>, migrations |-> <<>>]

\* C28 witness: a listing of "1.sql", "1-.sql", both without ID override, and
\* a subdirectory; the migration of "1-.sql" comes first although its id
\* sorts after the id of "1.sql".
C28_Witness ==
    /\ pCall = "dir"
    /\ Len(pEntries) = 3
    /\ pEntries[1].name = <<"1">> \o sqlSuffix
    /\ pEntries[2].name = <<"1", "-">> \o sqlSuffix
    /\ pEntries[3].isDir
    /\ pOut.err = "nil"
    /\ Len(pOut.migrations) = 2
    /\ pOut.migrations[1].id = <<"1", "-">>
    /\ pOut.migrations[2].id = <<"1">>

\* The Up section of a file: what is written to it when the ID override
\* lines are left out.
UpSection(lines) == TrimText(Scan(ScanInit(<<>>), Without(lines, IDLines(lines), 1)).up)

\* C29 as stated: if the Up section of a .sql file is empty after trimming,
\* ParseMigrations returns the MissingUpSection error and no migrations.
C29_MissingUpSectionReturned ==
    (/\ pCall = "dir"
     /\ \E e \in SqlEntries(pEntries) : UpSection(e.lines) = <<>>)
        => /\ pOut.err = "missing or empty Up section"
           /\ pOut.migrations = <<>>

\* C29: if the Up section of a .sql file is empty after trimming,
\* ParseMigrations returns an error and no migrations, also for the valid
\* files; the error is MissingUpSection when no .sql file fails for another
\* reason.
C29_EmptyUpFailsAll ==
    (/\ pCall = "dir"
     /\ \E e \in SqlEntries(pEntries) : UpSection(e.lines) = <<>>)
        => /\ pOut.err # "nil"
           /\ pOut.migrations = <<>>
           /\ (\A e \in SqlEntries(pEntries) :
                   parseMigrationFile(e.name, e.lines).err
                       \in {"nil", "missing or empty Up section"})
                  => pOut.err = "missing or empty Up section"

\* C29 witness: "1.sql" parses, "10.sql" has no Up marker, and the call
\* returns MissingUpSection for "10.sql" and no migration.
C29_Witness ==
    /\ pCall = "dir"
    /\ \E e \in SqlEntries(pEntries) :
           /\ e.name = <<"1">> \o sqlSuffix
           /\ parseMigrationFile(e.name, e.lines).err = "nil"
    /\ \E e \in SqlEntries(pEntries) :
           /\ e.name = <<"1", "0">> \o sqlSuffix
           /\ e.lines = <<"A;">>
    /\ pOut = [err |-> "missing or empty Up section", file |-> <<"1", "0">> \o sqlSuffix,
               migrations |-> <<>>]

\* C30 as stated: a migration whose Up is not empty after trimming, written
\* as a file and parsed, yields its id and its trimmed Up and Down.
C30_RoundTrip ==
    (pCall = "roundtrip" /\ TrimText(pMig.up) # <<>>)
        => pOut = Parsed(pMig.id, TrimText(pMig.up), TrimText(pMig.down))

\* A text no line of which the parser takes for a marker or shortens: no
\* line trims to the Up or the Down marker or begins, trimmed, with the ID
\* marker, and no line ends in a carriage return.
Plain(text) ==
    \A i \in 1..Len(text) :
        /\ ScanText(text[i]) = text[i]
        /\ TrimSpace(text[i]) \notin {markerUp, markerDown}
        /\ ~HasPrefixID(TrimSpace(text[i]))

\* C30: a migration whose Up is not empty after trimming, whose Up and Down
\* are plain texts and whose id, if an ID directive is written, is not
\* empty, written as a file and parsed, yields its id and its trimmed Up and
\* Down.
C30_RoundTripOfPlainText ==
    (/\ pCall = "roundtrip"
     /\ TrimText(pMig.up) # <<>>
     /\ pMig.directive => pMig.id # <<>>
     /\ Plain(pMig.up)
     /\ Plain(pMig.down))
        => pOut = Parsed(pMig.id, TrimText(pMig.up), TrimText(pMig.down))

\* C30 witness: a migration with an ID directive, an indented second Up
\* line and a Down that begins with an empty line.
C30_Witness ==
    /\ pCall = "roundtrip"
    /\ pMig = [id |-> <<"a">>, up |-> <<"A;", "  A;">>, down |-> <<"", "A;">>,
               directive |-> TRUE]
    /\ pOut = Parsed(<<"a">>, <<"A;", "  A;">>, <<"A;">>)

(***************************************************************************)
(* Further properties of the migration service and the database facade.    *)
(***************************************************************************)
\* C33: when an insert of a bookkeeping row failed, no Down is executed, and
\* when applyMigrations has returned after such a failure Migrate returns
\* nil and every Up of the call still stands in the schema.
C33_InsertFailureIsNotAnError ==
    insertFailed =>
        /\ DownsExecuted = <<>>
        /\ (pc = "done" /\ phase = "repos") =>
               /\ result = NoError
               /\ \A i \in 1..Len(UpsApplied) : Key(migrations[UpsApplied[i]]) \in schema

\* C33 witness: applyMigrations applied two migrations, an insert failed,
\* and the call has returned.
C33_Witness ==
    /\ pc = "done"
    /\ phase = "repos"
    /\ insertFailed
    /\ Len(UpsApplied) >= 2
    /\ masterErr # <<>>

\* C34: applyMigrations is entered only from a migrateSelf that applied the
\* bootstrap migration or found it in the logs, and had no failure; inside
\* migrateSelf the loop holds the bootstrap migration alone; and when
\* migrateSelf fails, Migrate returns the error of the bootstrap Up, which is
\* all that was executed.
C34_BootstrapFirst ==
    [][/\ (phase' = "repos" /\ phase # "repos") =>
              /\ migrations = selfMigrations
              /\ UpsFailed = <<>>
              /\ UpsApplied = <<1>> \/ Key(selfMigrations[1]) \in migrationLogs
       /\ phase' = "self" => migrations' = selfMigrations
       /\ (pc' = "done" /\ phase' = "self" /\ UpsFailed' # <<>>) =>
              /\ result' = ApplyError(1)
              /\ executed' = <<Event("up", 1, FALSE)>>]_vars

\* C34 witness: applyMigrations has applied a repository migration, and the
\* bootstrap migration stands in the schema.
C34_Witness ==
    /\ phase = "repos"
    /\ UpsApplied # <<>>
    /\ <<BootRepo, BootId>> \in schema
    /\ tableExists

\* The ids of the migrations of repository r in the batch, in batch order.
IdsOf(batch, r) ==
    LET own == SelectSeq(batch, LAMBDA x : x.repository = r)
    IN  [i \in 1..Len(own) |-> own[i].id]

\* C35: in applyMigrations the Ups execute in batch order; the migrations of
\* one repository stand in the batch in the order of its files, and no
\* migration of another repository stands between two of them.
C35_RepositoryOrderAndContiguity ==
    phase = "repos" =>
        LET ups == Positions(executed, "up", {TRUE, FALSE})
        IN  /\ \A i, j \in 1..Len(ups) : i < j => ups[i] < ups[j]
            /\ \A r \in DOMAIN migrators : IdsOf(migrations, r) = migrators[r]
            /\ \A a, b, c \in 1..Len(migrations) :
                   (a < b /\ b < c /\ migrations[a].repository = migrations[c].repository)
                       => migrations[b].repository = migrations[a].repository

\* C35 witness: two repositories with migrations, and the Ups of a batch of
\* three have all been executed.
C35_Witness ==
    /\ phase = "repos"
    /\ Len(UpsApplied) = 3
    /\ \A r \in Repos : r \in DOMAIN migrators /\ migrators[r] # <<>>
    /\ migrations[1].repository # migrations[3].repository

\* C37: in one loop no two Ups are executed for the same (repository, id).
C37_UpAtMostOncePerKey ==
    LET ups == Positions(executed, "up", {TRUE, FALSE})
    IN  \A i, j \in 1..Len(ups) :
            i # j => Key(migrations[ups[i]]) # Key(migrations[ups[j]])

\* The rows of the repositories, without the bootstrap row.
RepositoryRows(rs) == {row \in rs : row[1] # BootRepo}

\* C38: a call that returned with a migrator whose tree does not parse never
\* entered applyMigrations: its loop held the bootstrap migration alone, the
\* rows of the repositories are those the call found, and it returned an
\* error, the parse error unless the bootstrap Up or the load of the logs
\* failed before the trees were parsed.
C38_ParseFailureAbortsMigrate ==
    (pc = "done" /\ DOMAIN migrators \cap unparsable # {}) =>
        /\ phase = "self"
        /\ migrations = selfMigrations
        /\ RepositoryRows(rows) = RepositoryRows(rowsAtApply)
        /\ result # NoError
        /\ result \notin {ApplyError(1), SelectError} => result = ParseFailed

\* C38 witness: a migrator with migrations and one whose tree does not parse
\* are registered, and Migrate has returned the parse error after applying
\* the bootstrap migration.
C38_Witness ==
    /\ pc = "done"
    /\ result = ParseFailed
    /\ \E n \in DOMAIN migrators : n \notin unparsable /\ migrators[n] # <<>>
    /\ UpsApplied = <<1>>
    /\ <<BootRepo, BootId>> \in rows

\* C40: a migrator is registered under a name exactly when the repository
\* registered under the name exposes a migration file tree, and the batch of
\* applyMigrations holds migrations of such repositories only.
C40_MigratorsAreRegisteredMigrators ==
    /\ DOMAIN migrators = {n \in DOMAIN repositories : repositories[n] = "migrator"}
    /\ phase = "repos" =>
           \A i \in 1..Len(migrations) : repositories[migrations[i].repository] = "migrator"

(***************************************************************************)
(* Further properties of the application.                                  *)
(***************************************************************************)
\* C39: a probe is registered under a name exactly when the service
\* registered under the name exposes Healthcheck, it is that service, and
\* Health invokes the probes of registered services only.
C39_ProbesAreCurrentServices ==
    /\ DOMAIN healthcheckers = {n \in DOMAIN services : services[n].healthchecker}
    /\ \A n \in DOMAIN healthcheckers : healthcheckers[n] = services[n]
    /\ hPc = "in_probe" => services[hCur].healthchecker

(***************************************************************************)
(* Further properties of the scheduler.                                    *)
(***************************************************************************)
\* C36: in interval mode an execution never begins with a tick that was sent
\* while the previous execution was running: after a delay the task waits
\* for the next tick.
C36_NoMakeUpExecution ==
    [][(sMode = "interval" /\ sPc = "select" /\ sPc' = "task") => ~sStale]_vars

\* The positions of dbMigrated at which Migrate failed.
FailedDatabases == {i \in 1..Len(dbMigrated) : ~dbMigrated[i].ok}

\* C31: in migrate mode no database is migrated after one whose Migrate
\* failed, and none twice; Run returns DatabaseMigrationFailed with the cause
\* of that database when one failed, and nil when all the registered
\* databases, or none because none is registered, were migrated.
C31_FirstFailureEndsMigrate ==
    /\ FailedDatabases \subseteq {Len(dbMigrated)}
    /\ \A i, j \in 1..Len(dbMigrated) :
           dbMigrated[i].database = dbMigrated[j].database => i = j
    /\ (cmdPc = "returned" /\ entered = "migrate") =>
           IF FailedDatabases # {}
           THEN cmdResult
                    = ErrDatabaseMigrationFailed(dbMigrated[Len(dbMigrated)].database)
           ELSE /\ cmdResult = Nil
                /\ {dbMigrated[i].database : i \in 1..Len(dbMigrated)} = databases

\* C31 witness: of three databases the second one delivered failed, the
\* third was not migrated and Run returned the failure of the second.
C31_Witness ==
    /\ cmdPc = "returned"
    /\ databases = DatabaseNames
    /\ Len(dbMigrated) = 2
    /\ dbMigrated[1].ok
    /\ ~dbMigrated[2].ok
    /\ cmdResult = ErrDatabaseMigrationFailed(dbMigrated[2].database)

\* C32: Run returns nil without a command and for -h and --help, and
\* UnknownCommand for every command other than run, migrate, -h and --help;
\* in these cases neither run nor migrate is called, so that no startup task,
\* service or migration is executed; run and migrate are entered for their
\* commands only.
C32_UsageAndUnknownCommand ==
    /\ cmdPc # "config" =>
           LET command == IF Len(args) < 2 THEN "" ELSE args[2]
               given == Len(args) >= 2
           IN  /\ entered = (IF given /\ command \in {"run", "migrate"} THEN command
                             ELSE "none")
               /\ (~given \/ command \in {"-h", "--help"}) =>
                      cmdPc = "returned" /\ cmdResult = Nil
               /\ (given /\ command \notin {"run", "migrate", "-h", "--help"}) =>
                      cmdPc = "returned" /\ cmdResult = ErrUnknownCommand
    /\ entered # "migrate" => dbMigrated = <<>>
    /\ cmdPc \in {"run", "migrate"} => entered = cmdPc

\* C32 witness: with a database registered, Run was called with a command in
\* another case than "run" and returned UnknownCommand.
C32_Witness ==
    /\ cmdPc = "returned"
    /\ databases # {}
    /\ args = <<"program", "Run">>
    /\ cmdResult = ErrUnknownCommand
    /\ entered = "none"

====
